---- MODULE Spec2Model ----
(***************************************************************************)
(* The docket ingestion loaders of lexiflow-premium as one state machine:  *)
(*   - load_parties_attorneys.py            (kind "party",  psycopg2)       *)
(*   - archived/load_docket_entries.py      (kind "docket", cursor/commit)  *)
(*   - archived/load_docket_entries_pg8000.py (kind "pg",   conn.run)       *)
(* Each run is one execution of a script's main().  One action is one      *)
(* datastore call (or the local code up to the next one), so that runs     *)
(* against the same store interleave at statement granularity; each        *)
(* summary query of the party loader's report is a call of its own.        *)
(*                                                                         *)
(* The datastore is the environment.  A transactional connection (party,   *)
(* docket) keeps its writes in the run's txn until conn.commit(); its      *)
(* SELECTs see the committed rows and the run's own txn.  conn.run of      *)
(* pg8000.native issues each statement on its own, with no transaction     *)
(* opened by the script, so each write is committed as it is issued.       *)
(* A connection offers the calls the script makes on it (cursor, execute,  *)
(* fetchone, run, commit, rollback, close), except that the connection of  *)
(* load_docket_entries.py, made by pg8000.native, may be one without       *)
(* cursor(): that run then ends where it connects.  A statement that      *)
(* raises leaves the store as it was; on a transactional connection it     *)
(* puts the transaction in the failed state, as PostgreSQL does: every     *)
(* later statement of the transaction raises, and conn.commit() ends it    *)
(* without storing any of its writes and without raising.                  *)
(* The document is held as its regions (stub, party, attorney, docketText) *)
(* with the attribute values the extractors read from them; timestamps and *)
(* the columns no loader reads back (title, filed_by, ecf_number) are left *)
(* out of the rows.                                                        *)
(* Any datastore call may raise, and an open connection may be lost, after *)
(* which every call on it raises; the number of such faults per behaviour  *)
(* is bounded by MaxFaults.  The only uniqueness the store enforces is the *)
(* one the statements themselves name in ON CONFLICT: users(email),        *)
(* case_parties(case_id, party_id), parties(id).                           *)
(*                                                                         *)
(* Three specifications: Spec runs the scripts one after the other,        *)
(* SpecConc runs two at once, and SpecFn applies one function of the       *)
(* scripts to one argument (fn holds the function, argument and result).   *)
(* The store the runs start from is empty or holds the case, a party and a *)
(* user that the application created under keys the source also carries.   *)
(***************************************************************************)
EXTENDS Integers, Sequences, FiniteSets, TLC

\* ---------------------------------------------------------------- bounds
MaxRuns == 2       \* runs started in one behaviour
MaxFaults == 1     \* datastore calls that raise in one behaviour
MaxParties == 2    \* party regions in the source document
MaxEvents == 2     \* docketText elements in the source document
MaxWords == 2      \* phrases in an entry text a function is applied to on its own

Runs == 1..2       \* run slots (processes that may exist at once)

\* ---------------------------------------------------------------- values
None == "<None>"               \* Python None (no source string has this value)
NoId == <<0, 0>>               \* None where an id is expected
CASE_NUMBER == "24-2160"       \* the literal the loaders look up
SeedCaseId == <<0, 1>>         \* id of the case row loaded before the runs
SeedPartyId == <<0, 2>>        \* id of the party row loaded before the runs
SeedUserId == <<0, 3>>         \* id of the user row loaded before the runs

\* ---------------------------------------------------------------- strings
LowerAlphabet == "abcdefghijklmnopqrstuvwxyz"
UpperAlphabet == "ABCDEFGHIJKLMNOPQRSTUVWXYZ"

Char(s, i) == SubSeq(s, i, i)

AlphaIndex(alphabet, c) ==
  IF \E k \in 1..Len(alphabet) : Char(alphabet, k) = c
  THEN CHOOSE k \in 1..Len(alphabet) : Char(alphabet, k) = c
  ELSE 0

RECURSIVE MapChars(_, _, _)
MapChars(s, from, to) ==
  IF Len(s) = 0 THEN ""
  ELSE LET c == Char(s, 1)
           k == AlphaIndex(from, c)
       IN (IF k = 0 THEN c ELSE Char(to, k)) \o MapChars(SubSeq(s, 2, Len(s)), from, to)

\* str.upper() and str.lower() on the ASCII letters
Upper(s) == MapChars(s, LowerAlphabet, UpperAlphabet)
Lower(s) == MapChars(s, UpperAlphabet, LowerAlphabet)

\* sub in s
Contains(s, sub) ==
  \E k \in 1..(Len(s) - Len(sub) + 1) : SubSeq(s, k, k + Len(sub) - 1) = sub

\* s.replace(' ', '.')
RECURSIVE ReplaceSpaces(_)
ReplaceSpaces(s) ==
  IF Len(s) = 0 THEN ""
  ELSE (IF Char(s, 1) = " " THEN "." ELSE Char(s, 1)) \o ReplaceSpaces(SubSeq(s, 2, Len(s)))

\* s.replace(old, new): the occurrences of old from the left, not overlapping
RECURSIVE Replace(_, _, _)
Replace(s, old, new) ==
  IF Len(s) < Len(old) THEN s
  ELSE IF SubSeq(s, 1, Len(old)) = old
  THEN new \o Replace(SubSeq(s, Len(old) + 1, Len(s)), old, new)
  ELSE Char(s, 1) \o Replace(SubSeq(s, 2, Len(s)), old, new)

\* s.strip() for the blank character
RECURSIVE Strip(_)
Strip(s) ==
  IF Len(s) = 0 THEN ""
  ELSE IF Char(s, 1) = " " THEN Strip(SubSeq(s, 2, Len(s)))
  ELSE IF Char(s, Len(s)) = " " THEN Strip(SubSeq(s, 1, Len(s) - 1))
  ELSE s

\* sep.join(parts)
RECURSIVE Join(_, _)
Join(sep, parts) ==
  IF Len(parts) = 0 THEN ""
  ELSE IF Len(parts) = 1 THEN parts[1]
  ELSE parts[1] \o sep \o Join(sep, Tail(parts))

RECURSIVE SeqFilter(_, _)
SeqFilter(s, keep) ==
  IF Len(s) = 0 THEN <<>>
  ELSE (IF s[1] \in keep THEN <<s[1]>> ELSE <<>>) \o SeqFilter(Tail(s), keep)

\* s.split(sep) for a one-character separator
RECURSIVE Split(_, _, _)
Split(s, sep, acc) ==
  IF Len(s) = 0 THEN <<acc>>
  ELSE IF Char(s, 1) = sep THEN <<acc>> \o Split(SubSeq(s, 2, Len(s)), sep, "")
  ELSE Split(SubSeq(s, 2, Len(s)), sep, acc \o Char(s, 1))

\* s.split(): the maximal runs of non-blank characters
Words(s) ==
  LET pieces == Split(s, " ", "")
  IN SeqFilter(pieces, {pieces[k] : k \in 1..Len(pieces)} \ {""})

SeqsUpTo(S, n) == UNION {[1..k -> S] : k \in 0..n}

\* ---------------------------------------------------------------- source
\* <attorney firstName=... .../> regions as they stand in the document; an
\* attribute is None when the region does not have it
Jane == [firstName |-> "Jane", middleName |-> None, lastName |-> "Doe", email |-> ""]
Al == [firstName |-> "Al", middleName |-> "B", lastName |-> "Po", email |-> " al@x.org "]

\* <party info=... type=...> regions as they stand in the document; info is
\* None for a region that has no info="..." in it
PartyPool ==
  { [info |-> "ACME INC", type |-> "Appellee", attorneys |-> <<Jane, Al>>],
    [info |-> "ACME INC", type |-> "Appellant", attorneys |-> <<>>],
    [info |-> "John Roe", type |-> "Appellant", attorneys |-> <<>>],
    [info |-> None, type |-> "Appellee", attorneys |-> <<>>] }

\* a party region whose name is written with the entity for "&"
AmpParty == [info |-> "R&amp;D club", type |-> "Appellee", attorneys |-> <<>>]

\* caseNumber of the <stub> element: the case the party loader and
\* load_docket_entries.py look up by their literal, another case, or None for
\* a document that has no <stub> element
OTHER_CASE_NUMBER == "25-1229"
StubPool == {CASE_NUMBER, OTHER_CASE_NUMBER}

\* <docketText dateFiled=... text=.../> elements as they stand in the document
EventPool ==
  { [dateFiled |-> "01/15/2024", text |-> "MOTION to dismiss"],
    [dateFiled |-> "02/30/2024", text |-> "ORDER granting"],
    [dateFiled |-> "", text |-> ""] }

\* The party loader reads only the party regions, the docket loaders only the
\* docketText elements and the pg8000 loader also the stub, so the documents
\* tried vary one part at a time; one more document has a party and an event,
\* one a party name with an entity, and one has no stub.
Documents ==
  { [stub |-> CASE_NUMBER, parties |-> p, events |-> <<>>] :
      p \in SeqsUpTo(PartyPool, MaxParties) }
  \cup { [stub |-> c, parties |-> <<>>, events |-> e] :
           c \in StubPool, e \in SeqsUpTo(EventPool, MaxEvents) }
  \cup { [stub |-> CASE_NUMBER, parties |-> <<p>>, events |-> <<e>>] :
           p \in {q \in PartyPool : q.info = "John Roe"},
           e \in {f \in EventPool : f.text = "MOTION to dismiss"} }
  \cup { [stub |-> CASE_NUMBER, parties |-> <<AmpParty>>, events |-> <<>>] }
  \cup { [stub |-> None, parties |-> <<>>, events |-> <<e>>] :
           e \in {f \in EventPool : f.text = "MOTION to dismiss"} }

\* with two runs at once the documents tried are one record shorter
ConcDocuments ==
  {d \in Documents : Len(d.parties) < MaxParties /\ Len(d.events) < MaxEvents}

VARIABLES
  source,          \* the docket export every run reads (XML_FILE)
  cases,           \* committed rows of table cases
  parties,         \* committed rows of table parties
  users,           \* committed rows of table users
  case_parties,    \* committed rows of table case_parties
  docket_entries,  \* committed rows of table docket_entries
  run,             \* per slot: the state of the run executing in it
  nslots,          \* how many runs may execute at once
  started,         \* runs started so far
  faults,          \* datastore calls that raised so far
  fn               \* the last function applied on its own: name, argument, result

vars == <<source, cases, parties, users, case_parties, docket_entries,
          run, nslots, started, faults, fn>>

store == <<cases, parties, users, case_parties, docket_entries>>

Kinds == {"party", "docket", "pg"}

EmptyTxn == [parties |-> {}, users |-> {}, case_parties |-> {}, docket_entries |-> {}]

Snapshot ==
  [cases |-> cases, parties |-> parties, users |-> users,
   case_parties |-> case_parties, docket_entries |-> docket_entries]

\* the locals of a main() that has not started (aborted: a statement raised
\* in the open transaction, which is in the failed state; case_number is
\* case_info['case_number'] of the pg8000 loader, q the number of summary
\* queries of the party loader's report that have returned); failed (the records whose write
\* raised) and before (the committed store when the run started) are history
\* only, and so are user_id and email (what the last call of
\* insert_attorney_as_user returned, and the email it looked up) and reads (the
\* SELECT statements the run has issued, each as table and WHERE columns)
FreshRun ==
  [kind |-> "none", serial |-> 0, pc |-> "idle", conn |-> "none",
   case_id |-> NoId, case_seen |-> "unknown", case_number |-> None, q |-> 0,
   parties_data |-> <<>>, entries |-> <<>>, total |-> 0,
   i |-> 1, j |-> 1, party_id |-> NoId, user_id |-> NoId, email |-> None,
   txn |-> EmptyTxn, aborted |-> FALSE, nid |-> 0,
   inserted |-> 0, skipped |-> 0, attorneys_inserted |-> 0, errors |-> <<>>,
   commits |-> 0, outcome |-> "none", exit_code |-> -1,
   failed |-> {}, before |-> Snapshot, reads |-> {}]

Ended(r) == run[r].pc = "ended"
Active(r) == run[r].pc \notin {"idle", "ended"}

\* conn.commit(), conn.rollback() or the opening of the connection by run r:
\* it returns (ok) or raises; on a connection that was lost every call raises,
\* otherwise raising is bounded
EndCall(r, ok) ==
  /\ ok \in BOOLEAN
  /\ run[r].conn = "lost" => ~ok
  /\ (~ok /\ run[r].conn # "lost") => faults < MaxFaults
  /\ faults' = IF ok \/ run[r].conn = "lost" THEN faults ELSE faults + 1

\* one statement of run r: it returns (ok) or raises; on a connection that was
\* lost and in a transaction in the failed state every statement raises,
\* otherwise raising is bounded
Call(r, ok) ==
  /\ ok \in BOOLEAN
  /\ (run[r].conn = "lost" \/ run[r].aborted) => ~ok
  /\ (~ok /\ run[r].conn # "lost" /\ ~run[r].aborted) => faults < MaxFaults
  /\ faults' = IF ok \/ run[r].conn = "lost" \/ run[r].aborted THEN faults ELSE faults + 1

\* run record t after a statement raised in its transaction
Raised(t) == [t EXCEPT !.aborted = TRUE]

\* the environment drops the connection of run r (server restart, network)
LoseConnection(r) ==
  /\ run[r].conn = "open"
  /\ faults < MaxFaults
  /\ run' = [run EXCEPT ![r].conn = "lost"]
  /\ faults' = faults + 1
  /\ UNCHANGED <<fn, source, store, nslots, started>>

\* uuid.uuid4(): an id no other call produces
NewId(r) == <<run[r].serial, run[r].nid + 1>>

\* how main() ends
Finish(s, outcome, code) ==
  [s EXCEPT !.pc = "ended", !.outcome = outcome, !.exit_code = code]

\* the SELECT statements of the three programs
CaseLookup == [table |-> "cases", by |-> "case_number"]
PartyLookup == [table |-> "parties", by |-> "name"]
UserLookup == [table |-> "users", by |-> "email"]
EntryLookup == [table |-> "docket_entries", by |-> "case_id, sequence_number"]
VerifyRead == [table |-> "docket_entries", by |-> "case_id"]

\* the summary queries reading the case's case_parties rows whatever case_id is
ReportReads_Always(case_id) ==
  <<[table |-> "parties", by |-> ""], [table |-> "case_parties", by |-> "case_id"],
    [table |-> "users", by |-> "role"]>>

\* main(): the summary queries in their order; the one on case_parties is
\* under "if case_id:"
ReportReads(case_id) ==
  <<[table |-> "parties", by |-> ""]>>
  \o (IF case_id # NoId THEN <<[table |-> "case_parties", by |-> "case_id"]>> ELSE <<>>)
  \o <<[table |-> "users", by |-> "role"]>>

\* run record t after issuing the statements rs
Issue(t, rs) == [t EXCEPT !.reads = @ \cup rs]

\* no function applied on its own
NoCall == [op |-> "none", arg |-> <<>>, out |-> <<>>]

\* the store before the runs: empty, or holding what the application put there:
\* the case, a party and a user whose keys the source also carries, with
\* attributes of their own
InitStore ==
  /\ case_parties = {}
  /\ docket_entries = {}
  /\ \/ cases = {} /\ parties = {} /\ users = {}
     \/ /\ cases = {[id |-> SeedCaseId, case_number |-> CASE_NUMBER]}
        /\ parties = {[id |-> SeedPartyId, name |-> "John Roe", type |-> "Corporation"]}
        /\ users = {[id |-> SeedUserId, email |-> "jane.doe@law.example.com",
                     first_name |-> "Janet", last_name |-> "Doe"]}

Init ==
  /\ source \in Documents
  /\ InitStore
  /\ run = [r \in Runs |-> FreshRun]
  /\ nslots = 1
  /\ started = 0
  /\ faults = 0
  /\ fn = NoCall

\* runs one after the other: MaxRuns of them; runs at once: one per slot
RunLimit == IF nslots = 1 THEN MaxRuns ELSE nslots

\* python3 <script>: a process starts executing one of the three mains
Start(r) ==
  /\ r <= nslots
  /\ ~Active(r)
  /\ started < RunLimit
  /\ \E k \in Kinds :
       run' = [run EXCEPT ![r] =
                 [FreshRun EXCEPT !.kind = k, !.serial = started + 1,
                                  !.pc = "parse", !.before = Snapshot]]
  /\ started' = started + 1
  /\ UNCHANGED <<fn, source, store, nslots, faults>>

\* ------------------------------------------- load_parties_attorneys.py
\* the attorney dict built from one <attorney ...> region: the attributes found
\* (None for a key the dict does not get) and full_name, the non-empty name
\* parts joined by a blank
ParseAttorney(a) ==
  LET parts == <<a.firstName, a.middleName, a.lastName>>
  IN [full_name |-> Join(" ", SeqFilter(parts, {a.firstName, a.middleName, a.lastName} \ {"", None})),
      email |-> a.email]

RECURSIVE ParseAttorneys(_)
ParseAttorneys(regions) ==
  IF Len(regions) = 0 THEN <<>>
  ELSE LET a == ParseAttorney(regions[1])
       IN (IF a.full_name # "" THEN <<a>> ELSE <<>>) \o ParseAttorneys(Tail(regions))

\* Individual vs Corporation, from the name ('' when the region has no info=)
PartyType(name) ==
  LET n == IF name = None THEN "" ELSE name
  IN IF Contains(Upper(n), "INC") \/ Contains(Upper(n), "CLUB")
     THEN "Corporation" ELSE "Individual"

\* the party_info dict built from one <party ...> region: the name is the
\* info attribute with '&amp;' replaced by '&' (no 'name' key when the region
\* has no info=)
ParseParty(p) ==
  LET name == IF p.info = None THEN None ELSE Replace(p.info, "&amp;", "&")
  IN [name |-> name, type |-> PartyType(name), role |-> p.type,
      attorneys |-> ParseAttorneys(p.attorneys)]

parse_xml_parties(doc) == [k \in 1..Len(doc.parties) |-> ParseParty(doc.parties[k])]

\* counsel_name without the Pro Se rule of main() lines 320-322
CounselName_NoProSe(party) ==
  LET counsel_names == [k \in 1..Len(party.attorneys) |-> party.attorneys[k].full_name]
  IN IF Len(counsel_names) > 0 THEN Join(", ", counsel_names) ELSE None

\* counsel_name as main() builds it for one party
CounselName(party) ==
  LET counsel_names == [k \in 1..Len(party.attorneys) |-> party.attorneys[k].full_name]
  IN IF Len(counsel_names) > 0 THEN Join(", ", counsel_names)
     ELSE IF party.type = "Individual" THEN "Pro Se"
     ELSE None

\* the lookup key without .lower() on the name
AttorneyEmail_KeepCase(att) ==
  LET email == Strip(IF att.email = None THEN "" ELSE att.email)
  IN IF email # "" THEN email
     ELSE ReplaceSpaces(att.full_name) \o "@law.example.com"

\* the lookup key of insert_attorney_as_user
AttorneyEmail(att) ==
  LET email == Strip(IF att.email = None THEN "" ELSE att.email)
  IN IF email # "" THEN email
     ELSE ReplaceSpaces(Lower(att.full_name)) \o "@law.example.com"

\* the row insert_attorney_as_user inserts: first_name and last_name are the
\* first and the last word of full_name
UserRow(id, email, att) ==
  LET name_parts == Words(att.full_name)
  IN [id |-> id, email |-> email,
      first_name |-> IF Len(name_parts) > 0 THEN name_parts[1] ELSE "",
      last_name |-> IF Len(name_parts) > 1 THEN name_parts[Len(name_parts)] ELSE ""]

\* rows a SELECT of run r sees in a table: committed ones and its own
VisibleParties(r) == parties \cup run[r].txn.parties
VisibleUsers(r) == users \cup run[r].txn.users

\* insert_party without its lookup: every call takes the INSERT branch
ExistingParty_NoLookup(r, name) == {}

\* insert_party: cursor.execute("SELECT id FROM parties WHERE name = %s")
ExistingParty(r, name) == {p \in VisibleParties(r) : p.name = name}

\* insert_party keeping the uuid it drew although the lookup found a row
ResolvedPartyId_Fresh(r, existing) == NewId(r)

\* insert_party: party_id = existing['id']
ResolvedPartyId(r, existing) == existing.id

\* insert_attorney_as_user without its lookup
ExistingUser_NoLookup(r, email) == {}

\* insert_attorney_as_user: cursor.execute("SELECT id FROM users WHERE email = %s")
ExistingUser(r, email) == {u \in VisibleUsers(r) : u.email = email}

\* the link statement with ON CONFLICT (case_id, party_id) DO NOTHING: the
\* row already there is kept
UpsertCaseParty_KeepFirst(rows, row) ==
  IF \E x \in rows : x.case_id = row.case_id /\ x.party_id = row.party_id
  THEN rows ELSE rows \cup {row}

\* INSERT ... ON CONFLICT (case_id, party_id) DO UPDATE, on a set of rows
UpsertCaseParty(rows, row) ==
  {x \in rows : ~(x.case_id = row.case_id /\ x.party_id = row.party_id)} \cup {row}

\* control after the body of insert_party / the attorney loop
AfterAttorneys(s) ==
  IF s.i < Len(s.parties_data)
  THEN [s EXCEPT !.i = s.i + 1, !.j = 1, !.pc = "select_party"]
  ELSE [s EXCEPT !.pc = "commit"]

AfterAttorney(s) ==
  IF s.j < Len(s.parties_data[s.i].attorneys)
  THEN [s EXCEPT !.j = s.j + 1, !.pc = "select_user"]
  ELSE AfterAttorneys(s)

AfterLink(s) ==
  IF Len(s.parties_data[s.i].attorneys) > 0
  THEN [s EXCEPT !.j = 1, !.pc = "select_user"]
  ELSE AfterAttorneys(s)

\* main(): parse_xml_parties(XML_FILE) and the display loop, whose
\* party['name'] raises KeyError for a party_info that has no name
Party_Parse(r) ==
  /\ run[r].kind = "party" /\ run[r].pc = "parse"
  /\ \E readable \in BOOLEAN :
       LET s == run[r]
           data == parse_xml_parties(source)
       IN run' = [run EXCEPT ![r] =
            IF ~readable THEN Finish(s, "crashed", 1)
            ELSE IF \E k \in 1..Len(data) : data[k].name = None
            THEN Finish([s EXCEPT !.parties_data = data], "crashed", 1)
            ELSE [s EXCEPT !.parties_data = data, !.pc = "connect"]]
  /\ UNCHANGED <<fn, source, store, nslots, started, faults>>

\* main(): conn = connect_db(), return 1 when it raises
Party_Connect(r) ==
  /\ run[r].kind = "party" /\ run[r].pc = "connect"
  /\ \E ok \in BOOLEAN :
       /\ EndCall(r, ok)
       /\ LET s == run[r]
          IN run' = [run EXCEPT ![r] =
               IF ok THEN [s EXCEPT !.conn = "open", !.pc = "get_case"]
               ELSE Finish(s, "fatal", 1)]
  /\ UNCHANGED <<fn, source, store, nslots, started>>

\* get_case_id(conn)
get_case_id(r) ==
  /\ run[r].kind = "party" /\ run[r].pc = "get_case"
  /\ \E ok \in BOOLEAN :
       /\ Call(r, ok)
       /\ LET s == Issue(run[r], {CaseLookup})
              found == {c \in cases : c.case_number = CASE_NUMBER}
              go(t) == IF Len(t.parties_data) > 0 THEN [t EXCEPT !.pc = "select_party"]
                       ELSE [t EXCEPT !.pc = "commit"]
          IN IF ~ok THEN run' = [run EXCEPT ![r] = Finish(Raised(s), "crashed", 1)]
             ELSE IF found = {}
             THEN run' = [run EXCEPT ![r] = go([s EXCEPT !.case_seen = "absent"])]
             ELSE \E c \in found :
                    run' = [run EXCEPT ![r] =
                              go([s EXCEPT !.case_id = c.id, !.case_seen = "found"])]
  /\ UNCHANGED <<fn, source, store, nslots, started>>

\* insert_party: SELECT id FROM parties WHERE name = %s
insert_party_select(r) ==
  /\ run[r].kind = "party" /\ run[r].pc = "select_party"
  /\ \E ok \in BOOLEAN :
       /\ Call(r, ok)
       /\ LET s == Issue(run[r], {PartyLookup})
              existing == ExistingParty(r, s.parties_data[s.i].name)
          IN IF ~ok THEN run' = [run EXCEPT ![r] = Finish(Raised(s), "crashed", 1)]
             ELSE IF existing = {}
             THEN run' = [run EXCEPT ![r] = [s EXCEPT !.pc = "insert_party"]]
             ELSE \E p \in existing :
                    run' = [run EXCEPT ![r] =
                              [s EXCEPT !.party_id = ResolvedPartyId(r, p),
                                        !.inserted = s.inserted + 1, !.pc = "link"]]
  /\ UNCHANGED <<fn, source, store, nslots, started>>

\* insert_party: INSERT INTO parties ... ON CONFLICT (id) DO NOTHING
insert_party_insert(r) ==
  /\ run[r].kind = "party" /\ run[r].pc = "insert_party"
  /\ \E ok \in BOOLEAN :
       /\ Call(r, ok)
       /\ LET s == run[r]
              party == s.parties_data[s.i]
              row == [id |-> NewId(r), name |-> party.name, type |-> party.type]
          IN run' = [run EXCEPT ![r] =
               IF ~ok THEN Finish(Raised([s EXCEPT !.failed = @ \cup {party.name}]),
                                  "crashed", 1)
               ELSE [s EXCEPT !.txn.parties = @ \cup {row}, !.nid = s.nid + 1,
                              !.party_id = row.id, !.inserted = s.inserted + 1,
                              !.pc = "link"]]
  /\ UNCHANGED <<fn, source, store, nslots, started>>

\* the link attempted whatever case_id is
LinkSkipped_Never(case_id) == FALSE

\* main(): "if case_id and party_id" is false; insert_case_party: "if not case_id"
LinkSkipped(case_id) == case_id = NoId

\* main() lines 314-324 and insert_case_party
insert_case_party(r) ==
  /\ run[r].kind = "party" /\ run[r].pc = "link"
  /\ \E ok \in BOOLEAN :
       /\ Call(r, ok)
       /\ (LinkSkipped(run[r].case_id) /\ run[r].conn # "lost" /\ ~run[r].aborted) => ok
       /\ LET s == run[r]
              party == s.parties_data[s.i]
              row == [case_id |-> s.case_id, party_id |-> s.party_id,
                      role |-> party.role, counsel_name |-> CounselName(party)]
          IN run' = [run EXCEPT ![r] =
               IF LinkSkipped(s.case_id) THEN AfterLink(s)
               ELSE IF ok
               THEN AfterLink([s EXCEPT !.txn.case_parties = UpsertCaseParty(@, row)])
               ELSE AfterLink(Raised([s EXCEPT !.failed = @ \cup {party.name}]))]
  /\ UNCHANGED <<fn, source, store, nslots, started>>

\* insert_attorney_as_user: SELECT id FROM users WHERE email = %s
insert_attorney_select(r) ==
  /\ run[r].kind = "party" /\ run[r].pc = "select_user"
  /\ \E ok \in BOOLEAN :
       /\ Call(r, ok)
       /\ LET s == Issue(run[r], {UserLookup})
              att == s.parties_data[s.i].attorneys[s.j]
              existing == ExistingUser(r, AttorneyEmail(att))
          IN IF ~ok THEN run' = [run EXCEPT ![r] = Finish(Raised(s), "crashed", 1)]
             ELSE IF existing = {}
             THEN run' = [run EXCEPT ![r] = [s EXCEPT !.pc = "insert_user"]]
             ELSE \E u \in existing :
                    run' = [run EXCEPT ![r] =
                              AfterAttorney([s EXCEPT !.attorneys_inserted = @ + 1,
                                                      !.user_id = u.id,
                                                      !.email = u.email])]
  /\ UNCHANGED <<fn, source, store, nslots, started>>

\* insert_attorney_as_user: INSERT INTO users ... ON CONFLICT (email) DO NOTHING
insert_attorney_insert(r) ==
  /\ run[r].kind = "party" /\ run[r].pc = "insert_user"
  /\ \E ok \in BOOLEAN :
       /\ Call(r, ok)
       /\ LET s == run[r]
              att == s.parties_data[s.i].attorneys[s.j]
              email == AttorneyEmail(att)
              row == UserRow(NewId(r), email, att)
              conflict == \E u \in VisibleUsers(r) : u.email = email
              t == [s EXCEPT !.attorneys_inserted = @ + 1, !.nid = s.nid + 1,
                             !.user_id = row.id, !.email = email]
          IN run' = [run EXCEPT ![r] =
               IF ~ok THEN AfterAttorney(Raised([t EXCEPT !.failed = @ \cup {email}]))
               ELSE IF ~conflict
               THEN AfterAttorney([t EXCEPT !.txn.users = @ \cup {row}])
               ELSE AfterAttorney(t)]
  /\ UNCHANGED <<fn, source, store, nslots, started>>

\* an INSERT INTO docket_entries that replaces the row of the same case and
\* sequence number
InsertDocketEntries_Replace(rows, new) ==
  {x \in rows : ~\E y \in new : y.case_id = x.case_id
                                 /\ y.sequence_number = x.sequence_number} \cup new

\* INSERT INTO docket_entries, for the rows new
InsertDocketEntries(rows, new) == rows \cup new

\* INSERT INTO users without its ON CONFLICT clause
InsertOnConflictEmail_Plain(rows, new) == rows \cup new

\* INSERT INTO users ... ON CONFLICT (email) DO NOTHING, for the rows new
InsertOnConflictEmail(rows, new) ==
  rows \cup {u \in new : ~\E v \in rows : v.email = u.email}

\* a commit after which the parties the run inserted are not in the store
CommitTxn_WithoutParties(r) ==
  LET t == run[r].txn
  IN /\ parties' = parties
     /\ users' = InsertOnConflictEmail(users, t.users)
     /\ case_parties' =
          {x \in case_parties :
             ~\E y \in t.case_parties : y.case_id = x.case_id /\ y.party_id = x.party_id}
          \cup t.case_parties
     /\ docket_entries' = InsertDocketEntries(docket_entries, t.docket_entries)
     /\ cases' = cases

\* conn.commit() of a transactional connection: the run's txn becomes durable
CommitTxn(r) ==
  LET t == run[r].txn
  IN /\ parties' = parties \cup t.parties
     /\ users' = InsertOnConflictEmail(users, t.users)
     /\ case_parties' =
          {x \in case_parties :
             ~\E y \in t.case_parties : y.case_id = x.case_id /\ y.party_id = x.party_id}
          \cup t.case_parties
     /\ docket_entries' = InsertDocketEntries(docket_entries, t.docket_entries)
     /\ cases' = cases

\* main(): conn.commit(); of a transaction in the failed state it stores
\* nothing and returns
Party_Commit(r) ==
  /\ run[r].kind = "party" /\ run[r].pc = "commit"
  /\ \E ok \in BOOLEAN :
       /\ EndCall(r, ok)
       /\ LET s == run[r]
          IN IF ok
             THEN /\ IF s.aborted THEN UNCHANGED store ELSE CommitTxn(r)
                  /\ run' = [run EXCEPT ![r] =
                       [s EXCEPT !.txn = EmptyTxn, !.aborted = FALSE,
                                 !.commits = s.commits + 1, !.pc = "report"]]
             ELSE /\ run' = [run EXCEPT ![r] = Finish(s, "crashed", 1)]
                  /\ UNCHANGED store
  /\ UNCHANGED <<fn, source, nslots, started>>

\* main(): the next summary query of the report (cursor.execute and fetchall)
Party_Report(r) ==
  /\ run[r].kind = "party" /\ run[r].pc = "report"
  /\ \E ok \in BOOLEAN :
       /\ Call(r, ok)
       /\ LET all == ReportReads(run[r].case_id)
              s == Issue(run[r], {all[run[r].q + 1]})
          IN run' = [run EXCEPT ![r] =
               IF ~ok THEN Finish(Raised(s), "crashed", 1)
               ELSE IF s.q + 1 < Len(all) THEN [s EXCEPT !.q = s.q + 1]
               ELSE [s EXCEPT !.q = s.q + 1, !.pc = "close"]]
  /\ UNCHANGED <<fn, source, store, nslots, started>>

\* main(): cursor.close(), conn.close(), return 0
Party_Close(r) ==
  /\ run[r].kind = "party" /\ run[r].pc = "close"
  /\ run' = [run EXCEPT ![r] = Finish([run[r] EXCEPT !.conn = "closed"], "completed", 0)]
  /\ UNCHANGED <<fn, source, store, nslots, started, faults>>

\* ------------------------------------------- archived/load_docket_entries.py
Digits == "0123456789"

IsDigits(s) == Len(s) > 0 /\ \A k \in 1..Len(s) : AlphaIndex(Digits, Char(s, k)) # 0

\* int(s) for a string of decimal digits
RECURSIVE StrToInt(_)
StrToInt(s) ==
  IF Len(s) = 0 THEN 0
  ELSE 10 * StrToInt(SubSeq(s, 1, Len(s) - 1)) + (AlphaIndex(Digits, Char(s, Len(s))) - 1)

IsLeap(y) == (y % 4 = 0 /\ y % 100 # 0) \/ y % 400 = 0

DaysInMonth(y, m) ==
  IF m = 2 THEN (IF IsLeap(y) THEN 29 ELSE 28)
  ELSE IF m \in {4, 6, 9, 11} THEN 30 ELSE 31

Pad2(n) == IF n < 10 THEN "0" \o ToString(n) ELSE ToString(n)

\* parse_date: strptime(date_str, "%m/%d/%Y") then strftime("%Y-%m-%d");
\* None for '' and for whatever strptime rejects
parse_date(date_str) ==
  LET f == Split(date_str, "/", "")
      dd == IF Len(f) = 3 /\ Len(f[2]) = 2 /\ Char(f[2], 1) = " "
            THEN SubSeq(f[2], 2, 2) ELSE IF Len(f) = 3 THEN f[2] ELSE ""
      shaped == /\ Len(f) = 3
                /\ IsDigits(f[1]) /\ Len(f[1]) \in {1, 2}
                /\ IsDigits(dd) /\ Len(f[2]) \in {1, 2}
                /\ IsDigits(f[3]) /\ Len(f[3]) = 4
      m == StrToInt(f[1])
      d == StrToInt(dd)
      y == StrToInt(f[3])
  IN IF shaped /\ m \in 1..12 /\ y >= 1 /\ d \in 1..DaysInMonth(y, m)
     THEN ToString(y) \o "-" \o Pad2(m) \o "-" \o Pad2(d)
     ELSE None

\* the keyword rules with ORDER tested before MOTION
extract_type_OrderFirst(text) ==
  LET u == Upper(text)
  IN IF Contains(u, "CERTIFICATE OF SERVICE") \/ Contains(u, "CERT OF SERVICE") THEN "Certificate"
     ELSE IF Contains(u, "CERTIFICATE") THEN "Certificate"
     ELSE IF Contains(u, "ORDER") THEN "Order"
     ELSE IF Contains(u, "MOTION") THEN "Motion"
     ELSE IF Contains(u, "RESPONSE") \/ Contains(u, "OPPOSITION") THEN "Response"
     ELSE IF Contains(u, "REPLY") THEN "Reply"
     ELSE IF Contains(u, "NOTICE") THEN "Notice"
     ELSE IF Contains(u, "BRIEF") \/ Contains(u, "MEMORANDUM") THEN "Brief"
     ELSE IF Contains(u, "APPEAL") THEN "Appeal"
     ELSE IF Contains(u, "PETITION") THEN "Petition"
     ELSE IF Contains(u, "TRANSCRIPT") THEN "Transcript"
     ELSE IF Contains(u, "JUDGMENT") THEN "Judgment"
     ELSE IF Contains(u, "DOCKETING STATEMENT") THEN "Statement"
     ELSE IF Contains(u, "APPENDIX") THEN "Appendix"
     ELSE IF Contains(u, "EXHIBITS") \/ Contains(u, "EXHIBIT") THEN "Exhibit"
     ELSE "Filing"

\* extract_type: the ordered keyword rules, first match wins
extract_type(text) ==
  LET u == Upper(text)
  IN IF Contains(u, "CERTIFICATE OF SERVICE") \/ Contains(u, "CERT OF SERVICE") THEN "Certificate"
     ELSE IF Contains(u, "CERTIFICATE") THEN "Certificate"
     ELSE IF Contains(u, "MOTION") THEN "Motion"
     ELSE IF Contains(u, "ORDER") THEN "Order"
     ELSE IF Contains(u, "RESPONSE") \/ Contains(u, "OPPOSITION") THEN "Response"
     ELSE IF Contains(u, "REPLY") THEN "Reply"
     ELSE IF Contains(u, "NOTICE") THEN "Notice"
     ELSE IF Contains(u, "BRIEF") \/ Contains(u, "MEMORANDUM") THEN "Brief"
     ELSE IF Contains(u, "APPEAL") THEN "Appeal"
     ELSE IF Contains(u, "PETITION") THEN "Petition"
     ELSE IF Contains(u, "TRANSCRIPT") THEN "Transcript"
     ELSE IF Contains(u, "JUDGMENT") THEN "Judgment"
     ELSE IF Contains(u, "DOCKETING STATEMENT") THEN "Statement"
     ELSE IF Contains(u, "APPENDIX") THEN "Appendix"
     ELSE IF Contains(u, "EXHIBITS") \/ Contains(u, "EXHIBIT") THEN "Exhibit"
     ELSE "Filing"

\* ------------------------------------------- the other field normalizers
ValueError == "<ValueError>"   \* the exception strptime raises, where it escapes
NoMatch == "<no match>"        \* re.search(...) returning None

Min(S) == CHOOSE k \in S : \A j \in S : k <= j
Max(S) == CHOOSE k \in S : \A j \in S : k >= j

\* \w for the ASCII characters
IsWordChar(c) == AlphaIndex(LowerAlphabet \o UpperAlphabet \o Digits \o "_", c) # 0

\* number of blanks s starts with, and ends with
RECURSIVE LeadingBlanks(_)
LeadingBlanks(s) ==
  IF Len(s) > 0 /\ Char(s, 1) = " " THEN 1 + LeadingBlanks(SubSeq(s, 2, Len(s))) ELSE 0

RECURSIVE TrailingBlanks(_)
TrailingBlanks(s) ==
  IF Len(s) > 0 /\ Char(s, Len(s)) = " "
  THEN 1 + TrailingBlanks(SubSeq(s, 1, Len(s) - 1)) ELSE 0

\* positions of the character c in s
IndexesOf(s, c) == {k \in 1..Len(s) : Char(s, k) = c}

\* datetime.strptime(date_str, "%m/%d/%Y").strftime("%Y-%m-%d"), or the
\* ValueError strptime raises
strptime(date_str) ==
  LET f == Split(date_str, "/", "")
      dd == IF Len(f) = 3 /\ Len(f[2]) = 2 /\ Char(f[2], 1) = " "
            THEN SubSeq(f[2], 2, 2) ELSE IF Len(f) = 3 THEN f[2] ELSE ""
      shaped == /\ Len(f) = 3
                /\ IsDigits(f[1]) /\ Len(f[1]) \in {1, 2}
                /\ IsDigits(dd) /\ Len(f[2]) \in {1, 2}
                /\ IsDigits(f[3]) /\ Len(f[3]) = 4
      m == StrToInt(f[1])
      d == StrToInt(dd)
      y == StrToInt(f[3])
  IN IF shaped /\ m \in 1..12 /\ y >= 1 /\ d \in 1..DaysInMonth(y, m)
     THEN ToString(y) \o "-" \o Pad2(m) \o "-" \o Pad2(d)
     ELSE ValueError

\* re.search(r'\[(\d{10,})\]', text): group 1 of the leftmost match
re_search_ecf(text) ==
  LET closes(i) == {j \in (i + 11)..Len(text) :
                      Char(text, j) = "]" /\ IsDigits(SubSeq(text, i + 1, j - 1))}
      starts == {i \in IndexesOf(text, "[") : closes(i) # {}}
  IN IF starts = {} THEN NoMatch
     ELSE LET i == Min(starts) IN SubSeq(text, i + 1, Min(closes(i)) - 1)

\* extract_ecf_number of the loader
extract_ecf_number(text) ==
  LET m == re_search_ecf(text) IN IF m = NoMatch THEN None ELSE m

\* the pattern r'\bby\s+([^\.]+?)(?:\.|$)' tried at position k, ignoring case:
\* group 1, or NoMatch. Blanks are the only white space in the texts.
ByMatchAt(text, k) ==
  IF /\ k + 2 <= Len(text)
     /\ Lower(SubSeq(text, k, k + 1)) = "by"
     /\ (k = 1 \/ ~IsWordChar(Char(text, k - 1)))
     /\ Char(text, k + 2) = " "
  THEN LET after == SubSeq(text, k + 2, Len(text))
           w == LeadingBlanks(after)
           rest == SubSeq(after, w + 1, Len(after))
           dots == IndexesOf(rest, ".")
       IN IF Len(rest) > 0 /\ Char(rest, 1) # "."
          THEN (IF dots = {} THEN rest ELSE SubSeq(rest, 1, Min(dots) - 1))
          ELSE IF w >= 2 THEN " " ELSE NoMatch
  ELSE NoMatch

\* re.search of that pattern: group 1 of the leftmost match
re_search_by(text) ==
  LET hits == {k \in 1..Len(text) : ByMatchAt(text, k) # NoMatch}
  IN IF hits = {} THEN NoMatch ELSE ByMatchAt(text, Min(hits))

\* re.sub(r'\s*\([^)]*\)\s*', ' ', s)
RECURSIVE sub_parens(_)
sub_parens(s) ==
  LET opens == IndexesOf(s, "(")
      i == Min(opens)
      closes == {j \in IndexesOf(s, ")") : j > i}
  IN IF opens = {} \/ closes = {} THEN s
     ELSE LET before == SubSeq(s, 1, i - 1)
              behind == SubSeq(s, Min(closes) + 1, Len(s))
          IN SubSeq(before, 1, Len(before) - TrailingBlanks(before)) \o " "
             \o sub_parens(SubSeq(behind, LeadingBlanks(behind) + 1, Len(behind)))

\* extract_filed_by of the loader
extract_filed_by(text) ==
  LET m == re_search_by(text)
      filed_by == Strip(sub_parens(Strip(m)))
  IN IF m = NoMatch THEN None
     ELSE IF Len(filed_by) > 255 THEN SubSeq(filed_by, 1, 255) ELSE filed_by

\* --------------------------------------------- archived/generate_docket_sql.py
sql_parse_date(date_str) ==
  IF date_str = "" THEN None
  ELSE IF strptime(date_str) = ValueError THEN None ELSE strptime(date_str)

sql_extract_type(text) ==
  LET text_upper == Upper(text)
  IN IF Contains(text_upper, "CERTIFICATE OF SERVICE") \/ Contains(text_upper, "CERT OF SERVICE")
     THEN "Certificate"
     ELSE IF Contains(text_upper, "CERTIFICATE") THEN "Certificate"
     ELSE IF Contains(text_upper, "MOTION") THEN "Motion"
     ELSE IF Contains(text_upper, "ORDER") THEN "Order"
     ELSE IF Contains(text_upper, "RESPONSE") \/ Contains(text_upper, "OPPOSITION") THEN "Response"
     ELSE IF Contains(text_upper, "REPLY") THEN "Reply"
     ELSE IF Contains(text_upper, "NOTICE") THEN "Notice"
     ELSE IF Contains(text_upper, "BRIEF") \/ Contains(text_upper, "MEMORANDUM") THEN "Brief"
     ELSE IF Contains(text_upper, "APPEAL") THEN "Appeal"
     ELSE IF Contains(text_upper, "PETITION") THEN "Petition"
     ELSE IF Contains(text_upper, "TRANSCRIPT") THEN "Transcript"
     ELSE IF Contains(text_upper, "JUDGMENT") THEN "Judgment"
     ELSE IF Contains(text_upper, "DOCKETING STATEMENT") THEN "Statement"
     ELSE IF Contains(text_upper, "APPENDIX") THEN "Appendix"
     ELSE IF Contains(text_upper, "EXHIBITS") \/ Contains(text_upper, "EXHIBIT") THEN "Exhibit"
     ELSE "Filing"

sql_extract_filed_by(text) ==
  LET m == re_search_by(text)
      filed_by == Strip(sub_parens(Strip(m)))
  IN IF m = NoMatch THEN None
     ELSE IF Len(filed_by) > 255 THEN SubSeq(filed_by, 1, 255) ELSE filed_by

sql_extract_ecf_number(text) ==
  LET m == re_search_ecf(text) IN IF m = NoMatch THEN None ELSE m

\* ------------------------- archived/scripts/generate_docket_entries_25_1229.py
\* parse_date of the script: strptime is not guarded, its ValueError escapes
script_parse_date(date_str) == strptime(date_str)

infer_type(text) ==
  LET upper == Upper(text)
  IN IF Contains(upper, "CERTIFICATE OF SERVICE") \/ Contains(upper, "CERTIFICATE OF COMPLIANCE")
     THEN "Filing"
     ELSE IF Contains(upper, "MOTION") THEN "Motion"
     ELSE IF Contains(upper, "ORDER") \/ Contains(upper, "COURT ORDER") THEN "Order"
     ELSE IF Contains(upper, "NOTICE") THEN "Notice"
     ELSE IF Contains(upper, "BRIEF") THEN "Filing"
     ELSE IF Contains(upper, "JUDGMENT") THEN "Judgment"
     ELSE IF Contains(upper, "DISCLOSURE STATEMENT") THEN "Filing"
     ELSE "Filing"

\* extract_ecf_number of the script: '' where the loader has None
script_extract_ecf_number(text) ==
  LET m == re_search_ecf(text) IN IF m = NoMatch THEN "" ELSE m

\* extract_filed_by of the script: what follows the last ']' when that has
\* no '[' in it, stripped and with its blanks collapsed; '' otherwise
script_extract_filed_by(text) ==
  LET closes == IndexesOf(text, "]")
      tail == SubSeq(text, Max(closes) + 1, Len(text))
      collapsed == Join(" ", Words(tail))
  IN IF closes = {} THEN ""
     ELSE IF Len(tail) = 0 \/ IndexesOf(tail, "[") # {} THEN ""
     ELSE IF Len(collapsed) <= 255 THEN collapsed ELSE ""

\* parse_line: the fields of an ENTRY line, each stripped
parse_line(ev) == [dateFiled |-> Strip(ev.dateFiled), text |-> Strip(ev.text)]

\* the normalized values each program derives from one docket event
LoaderNormalized(ev) ==
  [type |-> extract_type(ev.text), date_filed |-> parse_date(ev.dateFiled),
   ecf_number |-> extract_ecf_number(ev.text), filed_by |-> extract_filed_by(ev.text)]

SqlNormalized(ev) ==
  [type |-> sql_extract_type(ev.text), date_filed |-> sql_parse_date(ev.dateFiled),
   ecf_number |-> sql_extract_ecf_number(ev.text),
   filed_by |-> sql_extract_filed_by(ev.text)]

\* generate_inserts: parse_line, then the script's own helpers
ScriptNormalized(ev) ==
  LET line == parse_line(ev)
  IN [type |-> infer_type(line.text), date_filed |-> script_parse_date(line.dateFiled),
      ecf_number |-> script_extract_ecf_number(line.text),
      filed_by |-> script_extract_filed_by(line.text)]

\* the parse loop numbering from 0 (enumerate without its start argument)
DocketEntryOf_ZeroBased(idx, ev) ==
  [sequence_number |-> idx - 1, date_filed |-> parse_date(ev.dateFiled),
   type |-> extract_type(ev.text), description |-> ev.text]

\* main() lines 146-173: one entry per docketText element, numbered by enumerate
DocketEntryOf(idx, ev) ==
  [sequence_number |-> idx, date_filed |-> parse_date(ev.dateFiled),
   type |-> extract_type(ev.text), description |-> ev.text]

DocketEntries(doc) == [k \in 1..Len(doc.events) |-> DocketEntryOf(k, doc.events[k])]

\* the row one INSERT INTO docket_entries writes
DocketRow(id, case_id, seq, entry) ==
  [id |-> id, case_id |-> case_id, sequence_number |-> seq,
   date_filed |-> entry.date_filed, type |-> entry.type,
   description |-> entry.description]

\* errors.append(f"Entry {entry['sequence_number']}: {str(e)}"), without str(e)
ErrorLine(entry) == "Entry " \o ToString(entry.sequence_number)

\* main() lines 205-210: the case is not in the store
CaseMissingExit(s) ==
  Finish([s EXCEPT !.case_seen = "absent", !.conn = "closed"], "fatal", 0)

\* main(): ET.parse(XML_FILE), findall('.//docketText'), the parse loop
Docket_Parse(r) ==
  /\ run[r].kind = "docket" /\ run[r].pc = "parse"
  /\ \E parseable \in BOOLEAN :
       LET s == run[r]
       IN run' = [run EXCEPT ![r] =
            IF ~parseable \/ Len(source.events) = 0
            THEN Finish(s, "fatal", 0)
            ELSE [s EXCEPT !.entries = DocketEntries(source),
                           !.total = Len(source.events), !.pc = "connect"]]
  /\ UNCHANGED <<fn, source, store, nslots, started, faults>>

\* main(): conn = pg8000.native.Connection(...); cur = conn.cursor(), both in
\* one try.  Whether the connection object has cursor() depends on the
\* installed driver: where it has not, conn.cursor() raises AttributeError
\* with the connection open, and main() returns as for a failed connection.
Docket_Connect(r) ==
  /\ run[r].kind = "docket" /\ run[r].pc = "connect"
  /\ \E ok, has_cursor \in BOOLEAN :
       /\ EndCall(r, ok)
       /\ ~ok => has_cursor
       /\ LET s == run[r]
          IN run' = [run EXCEPT ![r] =
               IF ~ok THEN Finish(s, "fatal", 0)
               ELSE IF ~has_cursor THEN Finish([s EXCEPT !.conn = "open"], "fatal", 0)
               ELSE [s EXCEPT !.conn = "open", !.pc = "get_case"]]
  /\ UNCHANGED <<fn, source, store, nslots, started>>

\* main(): SELECT id FROM cases WHERE case_number = '24-2160'
Docket_GetCase(r) ==
  /\ run[r].kind = "docket" /\ run[r].pc = "get_case"
  /\ \E ok \in BOOLEAN :
       /\ Call(r, ok)
       /\ LET s == Issue(run[r], {CaseLookup})
              found == {c \in cases : c.case_number = CASE_NUMBER}
          IN IF ~ok THEN run' = [run EXCEPT ![r] = Raised([s EXCEPT !.pc = "handler"])]
             ELSE IF found = {}
             THEN run' = [run EXCEPT ![r] = CaseMissingExit(s)]
             ELSE \E c \in found :
                    run' = [run EXCEPT ![r] =
                              [s EXCEPT !.case_id = c.id, !.case_seen = "found",
                                        !.i = 1, !.pc = "insert_entry"]]
  /\ UNCHANGED <<fn, source, store, nslots, started>>

\* main(): the body of "for entry in entries", with its except clause
Docket_Insert(r) ==
  /\ run[r].kind = "docket" /\ run[r].pc = "insert_entry"
  /\ \E ok \in BOOLEAN :
       /\ Call(r, ok)
       /\ LET s == run[r]
              entry == s.entries[s.i]
              row == DocketRow(NewId(r), s.case_id, entry.sequence_number, entry)
              t == IF ok
                   THEN [s EXCEPT !.txn.docket_entries = @ \cup {row},
                                  !.inserted = s.inserted + 1, !.nid = s.nid + 1]
                   ELSE Raised([s EXCEPT !.errors = Append(@, ErrorLine(entry)),
                                         !.failed = @ \cup {ToString(entry.sequence_number)},
                                         !.nid = s.nid + 1])
          IN run' = [run EXCEPT ![r] =
               IF s.i < Len(s.entries) THEN [t EXCEPT !.i = s.i + 1]
               ELSE [t EXCEPT !.pc = "commit"]]
  /\ UNCHANGED <<fn, source, store, nslots, started>>

\* main(): conn.commit(); of a transaction in the failed state it stores
\* nothing and returns
Docket_Commit(r) ==
  /\ run[r].kind = "docket" /\ run[r].pc = "commit"
  /\ \E ok \in BOOLEAN :
       /\ EndCall(r, ok)
       /\ LET s == run[r]
          IN IF ok
             THEN /\ IF s.aborted THEN UNCHANGED store ELSE CommitTxn(r)
                  /\ run' = [run EXCEPT ![r] =
                       [s EXCEPT !.txn = EmptyTxn, !.aborted = FALSE,
                                 !.commits = s.commits + 1, !.pc = "verify"]]
             ELSE /\ run' = [run EXCEPT ![r] = [s EXCEPT !.pc = "handler"]]
                  /\ UNCHANGED store
  /\ UNCHANGED <<fn, source, nslots, started>>

\* main(): the verifying SELECT COUNT(*), cur.close(), conn.close(), the summary
Docket_Verify(r) ==
  /\ run[r].kind = "docket" /\ run[r].pc = "verify"
  /\ \E ok \in BOOLEAN :
       /\ Call(r, ok)
       /\ LET s == Issue(run[r], {VerifyRead})
          IN run' = [run EXCEPT ![r] =
               IF ok THEN Finish([s EXCEPT !.conn = "closed"], "completed", 0)
               ELSE Raised([s EXCEPT !.pc = "handler"])]
  /\ UNCHANGED <<fn, source, store, nslots, started>>

\* main(): except Exception: conn.rollback(); conn.close(); return
Docket_Handler(r) ==
  /\ run[r].kind = "docket" /\ run[r].pc = "handler"
  /\ \E ok \in BOOLEAN :
       /\ EndCall(r, ok)
       /\ LET s == run[r]
          IN run' = [run EXCEPT ![r] =
               IF ok THEN Finish([s EXCEPT !.txn = EmptyTxn, !.aborted = FALSE,
                                           !.conn = "closed"], "fatal", 0)
               ELSE Finish(s, "crashed", 1)]
  /\ UNCHANGED <<fn, source, store, nslots, started>>

DocketStep(r) ==
  \/ Docket_Parse(r)
  \/ Docket_Connect(r)
  \/ Docket_GetCase(r)
  \/ Docket_Insert(r)
  \/ Docket_Commit(r)
  \/ Docket_Verify(r)
  \/ Docket_Handler(r)

\* ------------------------------------ archived/load_docket_entries_pg8000.py
\* parse_docket_entries: elements without text are skipped, the rest numbered
\* str(len(entries) + 1)
RECURSIVE parse_docket_entries(_, _)
parse_docket_entries(events, entries) ==
  IF Len(events) = 0 THEN entries
  ELSE LET ev == events[1]
           entry == [entry_number |-> ToString(Len(entries) + 1),
                     date_filed |-> parse_date(ev.dateFiled),
                     type |-> extract_type(ev.text), text |-> ev.text]
       IN parse_docket_entries(Tail(events),
            IF ev.text = "" THEN entries ELSE Append(entries, entry))

\* the row insert_docket_entries writes; the store reads :seq_num as a number
PgDocketRow(id, case_id, entry) ==
  [id |-> id, case_id |-> case_id, sequence_number |-> StrToInt(entry.entry_number),
   date_filed |-> entry.date_filed, type |-> entry.type,
   description |-> SubSeq(entry.text, 1, IF Len(entry.text) < 500 THEN Len(entry.text) ELSE 500)]

PgAfterEntry(s) ==
  IF s.i < Len(s.entries) THEN [s EXCEPT !.i = s.i + 1, !.pc = "select_entry"]
  ELSE [s EXCEPT !.pc = "close"]

\* ------------------------------------------------- the statistics of a run
\* Python's order of str on the characters of a parsed date
StrLeq(a, b) ==
  LET order == "-0123456789"
      n == IF Len(a) < Len(b) THEN Len(a) ELSE Len(b)
      diff == {k \in 1..n : Char(a, k) # Char(b, k)}
  IN IF diff = {} THEN Len(a) <= Len(b)
     ELSE AlphaIndex(order, Char(a, Min(diff))) < AlphaIndex(order, Char(b, Min(diff)))

\* the date range taken from the first and the last date in source order
DateRange_Unsorted(dates) ==
  IF Len(dates) = 0 THEN <<>> ELSE <<dates[1], dates[Len(dates)]>>

\* "if dates:" then min(dates) and max(dates), or sorted(dates)[0] and [-1];
\* <<>> when no "Date Range" line is printed
DateRange(dates) ==
  IF Len(dates) = 0 THEN <<>>
  ELSE LET ds == {dates[k] : k \in 1..Len(dates)}
       IN <<CHOOSE d \in ds : \A e \in ds : StrLeq(d, e),
            CHOOSE d \in ds : \A e \in ds : StrLeq(e, d)>>

\* Counter(types): each type that occurs, with the number of its occurrences
Counter(types) ==
  [t \in {types[k] : k \in 1..Len(types)} |->
     Cardinality({k \in 1..Len(types) : types[k] = t})]

IsDate(parsed) == parsed # None

\* main() returned before the statistics
NoStatistics == [printed |-> FALSE, total |-> 0, types |-> <<>>, range |-> <<>>]

\* what a report shows of the parsed entries: their number, the per-type
\* counts and the date range over the dates that are not None
Statistics(entries) ==
  [printed |-> TRUE, total |-> Len(entries),
   types |-> Counter([k \in 1..Len(entries) |-> entries[k].type]),
   range |-> DateRange(SelectSeq([k \in 1..Len(entries) |-> entries[k].date_filed],
                                 IsDate))]

\* load_docket_entries.py main(): type_counter and dates of the parse loop and
\* the report printed from them
DocketStatistics(events) ==
  IF Len(events) = 0 THEN NoStatistics
  ELSE Statistics(DocketEntries([stub |-> CASE_NUMBER, parties |-> <<>>, events |-> events]))

\* load_docket_entries_pg8000.py: print_statistics(entries), which main() calls
\* when entries is not empty
print_statistics(events) ==
  LET entries == parse_docket_entries(events, <<>>)
  IN IF Len(entries) = 0 THEN NoStatistics ELSE Statistics(entries)

\* parse_case_info: case_info['case_number'] from the <stub> element, None
\* when the document has none
parse_case_info(doc) == doc.stub

\* main(): parse_case_info, parse_docket_entries, print_statistics
Pg_Parse(r) ==
  /\ run[r].kind = "pg" /\ run[r].pc = "parse"
  /\ \E parseable \in BOOLEAN :
       LET s == run[r]
           case_number == parse_case_info(source)
           es == parse_docket_entries(source.events, <<>>)
       IN run' = [run EXCEPT ![r] =
            IF ~parseable \/ case_number = None \/ Len(es) = 0
            THEN Finish(s, "fatal", 0)
            ELSE [s EXCEPT !.case_number = case_number, !.entries = es,
                           !.total = Len(es), !.pc = "connect"]]
  /\ UNCHANGED <<fn, source, store, nslots, started, faults>>

\* main(): conn = pg8000.native.Connection(**DB_PARAMS)
Pg_Connect(r) ==
  /\ run[r].kind = "pg" /\ run[r].pc = "connect"
  /\ \E ok \in BOOLEAN :
       /\ EndCall(r, ok)
       /\ LET s == run[r]
          IN run' = [run EXCEPT ![r] =
               IF ok THEN [s EXCEPT !.conn = "open", !.pc = "select_case"]
               ELSE Finish(s, "fatal", 0)]
  /\ UNCHANGED <<fn, source, store, nslots, started>>

\* get_or_create_case: SELECT id FROM cases WHERE case_number = :case_num
get_or_create_case_select(r) ==
  /\ run[r].kind = "pg" /\ run[r].pc = "select_case"
  /\ \E ok \in BOOLEAN :
       /\ Call(r, ok)
       /\ LET s == Issue(run[r], {CaseLookup})
              result == {c \in cases : c.case_number = s.case_number}
          IN IF ~ok
             THEN run' = [run EXCEPT ![r] = Finish([s EXCEPT !.conn = "closed"], "fatal", 0)]
             ELSE IF result = {}
             THEN run' = [run EXCEPT ![r] =
                            [s EXCEPT !.case_seen = "absent", !.pc = "insert_case"]]
             ELSE \E c \in result :
                    run' = [run EXCEPT ![r] =
                              [s EXCEPT !.case_id = c.id, !.case_seen = "found",
                                        !.i = 1, !.pc = "select_entry"]]
  /\ UNCHANGED <<fn, source, store, nslots, started>>

\* get_or_create_case: INSERT INTO cases
get_or_create_case_insert(r) ==
  /\ run[r].kind = "pg" /\ run[r].pc = "insert_case"
  /\ \E ok \in BOOLEAN :
       /\ Call(r, ok)
       /\ LET s == run[r]
              row == [id |-> NewId(r), case_number |-> s.case_number]
          IN IF ok
             THEN /\ cases' = cases \cup {row}
                  /\ run' = [run EXCEPT ![r] =
                       [s EXCEPT !.case_id = row.id, !.nid = s.nid + 1,
                                 !.i = 1, !.pc = "select_entry"]]
             ELSE /\ cases' = cases
                  /\ run' = [run EXCEPT ![r] =
                       Finish([s EXCEPT !.conn = "closed"], "fatal", 0)]
  /\ UNCHANGED <<fn, source, parties, users, case_parties, docket_entries, nslots, started>>

\* insert_docket_entries without its check: every entry is taken as new
ExistingEntry_NoCheck(case_id, entry) == {}

\* insert_docket_entries: the rows its SELECT returns for one entry
ExistingEntry(case_id, entry) ==
  {d \in docket_entries :
     d.case_id = case_id /\ d.sequence_number = StrToInt(entry.entry_number)}

\* insert_docket_entries: SELECT id FROM docket_entries WHERE case_id, sequence_number
insert_docket_entries_select(r) ==
  /\ run[r].kind = "pg" /\ run[r].pc = "select_entry"
  /\ \E ok \in BOOLEAN :
       /\ Call(r, ok)
       /\ LET s == Issue(run[r], {EntryLookup})
              entry == s.entries[s.i]
              existing == ExistingEntry(s.case_id, entry)
          IN run' = [run EXCEPT ![r] =
               IF ~ok THEN PgAfterEntry(s)
               ELSE IF existing # {} THEN PgAfterEntry([s EXCEPT !.skipped = s.skipped + 1])
               ELSE [s EXCEPT !.pc = "insert_entry"]]
  /\ UNCHANGED <<fn, source, store, nslots, started>>

\* insert_docket_entries: INSERT INTO docket_entries
insert_docket_entries_insert(r) ==
  /\ run[r].kind = "pg" /\ run[r].pc = "insert_entry"
  /\ \E ok \in BOOLEAN :
       /\ Call(r, ok)
       /\ LET s == run[r]
              row == PgDocketRow(NewId(r), s.case_id, s.entries[s.i])
          IN IF ok
             THEN /\ docket_entries' = InsertDocketEntries(docket_entries, {row})
                  /\ run' = [run EXCEPT ![r] =
                       PgAfterEntry([s EXCEPT !.inserted = s.inserted + 1,
                                              !.nid = s.nid + 1])]
             ELSE /\ docket_entries' = docket_entries
                  /\ run' = [run EXCEPT ![r] =
                       PgAfterEntry([s EXCEPT !.nid = s.nid + 1,
                                              !.failed = @ \cup {s.entries[s.i].entry_number}])]
  /\ UNCHANGED <<fn, source, cases, parties, users, case_parties, nslots, started>>

\* main(): conn.close() after insert_docket_entries returns
Pg_Close(r) ==
  /\ run[r].kind = "pg" /\ run[r].pc = "close"
  /\ run' = [run EXCEPT ![r] = Finish([run[r] EXCEPT !.conn = "closed"], "completed", 0)]
  /\ UNCHANGED <<fn, source, store, nslots, started, faults>>

PgStep(r) ==
  \/ Pg_Parse(r)
  \/ Pg_Connect(r)
  \/ get_or_create_case_select(r)
  \/ get_or_create_case_insert(r)
  \/ insert_docket_entries_select(r)
  \/ insert_docket_entries_insert(r)
  \/ Pg_Close(r)

PartyStep(r) ==
  \/ Party_Parse(r)
  \/ Party_Connect(r)
  \/ get_case_id(r)
  \/ insert_party_select(r)
  \/ insert_party_insert(r)
  \/ insert_case_party(r)
  \/ insert_attorney_select(r)
  \/ insert_attorney_insert(r)
  \/ Party_Commit(r)
  \/ Party_Report(r)
  \/ Party_Close(r)

Next ==
  \E r \in Runs :
    Start(r) \/ PartyStep(r) \/ DocketStep(r) \/ PgStep(r) \/ LoseConnection(r)

Spec == Init /\ [][Next]_vars

\* a process that was started keeps executing: the next statement of each run
\* is eventually taken (no datastore call blocks for ever)
RunStep(r) == PartyStep(r) \/ DocketStep(r) \/ PgStep(r)

SpecLive == Spec /\ \A r \in Runs : WF_vars(RunStep(r))

\* two runs at once against the same store
InitConc ==
  /\ source \in ConcDocuments
  /\ InitStore
  /\ run = [r \in Runs |-> FreshRun]
  /\ nslots = 2
  /\ started = 0
  /\ faults = 0
  /\ fn = NoCall

SpecConc == InitConc /\ [][Next]_vars

\* ------------------------------------------- the functions on their own
\* One function is applied to one argument, outside any run.
\* <attorney .../> regions a function is applied to: every combination of the
\* attribute values below
AttorneyRegions ==
  [firstName : {None, "Jane", "Mary Ann"},
   middleName : {None, "Q"},
   lastName : {"", "Doe", "De La O"},
   email : {None, "", "  ", "j.doe@firm.com", " J.Doe@Firm.com "}]

\* phrases of entry texts, and the texts made of up to MaxWords of them
TextWords ==
  {"Certificate of Service", "cert of service", "CERTIFICATE", "Motion", "ORDER",
   "Response", "opposition", "Reply", "Notice", "Brief", "Memorandum", "Appeal",
   "Petition", "Transcript", "Judgment", "Docketing Statement", "Statement",
   "Appendix", "Exhibits", "exhibit", "Letter", "reordered"}

Texts == {Join(" of ", ws) : ws \in SeqsUpTo(TextWords, MaxWords)}

\* parse_xml_parties on one attorney region, then the key insert_attorney_as_user
\* derives from the attorney dict (a region without any name part gives no dict)
Apply_AttorneyEmail ==
  /\ fn = NoCall
  /\ \E region \in AttorneyRegions :
       LET attorneys == ParseAttorneys(<<region>>)
       IN /\ Len(attorneys) = 1
          /\ fn' = [op |-> "insert_attorney_as_user", arg |-> region,
                    out |-> AttorneyEmail(attorneys[1])]
  /\ UNCHANGED <<source, store, run, nslots, started, faults>>

\* extract_type(text)
Apply_extract_type ==
  /\ fn = NoCall
  /\ \E text \in Texts :
       fn' = [op |-> "extract_type", arg |-> text, out |-> extract_type(text)]
  /\ UNCHANGED <<source, store, run, nslots, started, faults>>

\* date strings a date parser is applied to: month/day/year from the parts
\* below, and strings of another shape
DateStrings ==
  {m \o "/" \o d \o "/" \o y : m \in {"01", "1", "02", "12", "13", "00"},
                               d \in {"15", "5", " 5", "29", "30", "31", "00"},
                               y \in {"2024", "2023", "1900", "0999", "24"}}
  \cup {"", "2024-01-15", "01-15-2024", "01/15", "01/15/2024 ", "ab/cd/efgh"}

\* phrases of entry texts with bracketed tokens, and the texts made of up to
\* MaxWords + 1 of them
EcfWords ==
  {"[24-2160]", "[1001734848]", "[10090000001]", "[100173484]", "[100173484x]", "AW"}

EcfTexts == {Join(" ", ws) : ws \in SeqsUpTo(EcfWords, MaxWords + 1)}

\* docket events the three programs are applied to
EventDates == {"01/15/2024", "1/5/2024", "02/30/2024", ""}

EventWords ==
  {"MOTION to dismiss filed by John Roe.", "ORDER granting", "Certificate of Service",
   "BRIEF by Acme Inc (appellee). [1001734848]", "[24-2160] JR", "Letter"}

Events ==
  [dateFiled : EventDates, text : {Join(" ", ws) : ws \in SeqsUpTo(EventWords, MaxWords)}]

\* parse_date(date_str) of the loader and of the script
Apply_parse_date ==
  /\ fn = NoCall
  /\ \E date_str \in DateStrings :
       fn' = [op |-> "parse_date", arg |-> date_str,
              out |-> [loader |-> parse_date(date_str),
                       script |-> script_parse_date(date_str)]]
  /\ UNCHANGED <<source, store, run, nslots, started, faults>>

\* extract_ecf_number(text) of the loader and of the script
Apply_extract_ecf_number ==
  /\ fn = NoCall
  /\ \E text \in EcfTexts :
       fn' = [op |-> "extract_ecf_number", arg |-> text,
              out |-> [loader |-> extract_ecf_number(text),
                       script |-> script_extract_ecf_number(text)]]
  /\ UNCHANGED <<source, store, run, nslots, started, faults>>

\* docket events a report is made of, and their sequences of up to
\* MaxEvents + 1
ReportEvents ==
  { [dateFiled |-> "01/15/2024", text |-> "MOTION to dismiss"],
    [dateFiled |-> "12/31/2023", text |-> "ORDER granting"],
    [dateFiled |-> "3/1/2024", text |-> "Letter"],
    [dateFiled |-> "02/30/2024", text |-> "motion for leave"],
    [dateFiled |-> "", text |-> ""] }

\* the statistics each docket loader reports for a sequence of events
Apply_print_statistics ==
  /\ fn = NoCall
  /\ \E events \in SeqsUpTo(ReportEvents, MaxEvents + 1) :
       fn' = [op |-> "print_statistics", arg |-> events,
              out |-> [loader |-> DocketStatistics(events),
                       pg |-> print_statistics(events)]]
  /\ UNCHANGED <<source, store, run, nslots, started, faults>>

\* one docket event through the loader's parse loop and through each generator's
Apply_Normalize ==
  /\ fn = NoCall
  /\ \E ev \in Events :
       fn' = [op |-> "normalize", arg |-> ev,
              out |-> [loader |-> LoaderNormalized(ev), sql |-> SqlNormalized(ev),
                       script |-> ScriptNormalized(ev)]]
  /\ UNCHANGED <<source, store, run, nslots, started, faults>>

InitFn ==
  /\ source = [stub |-> CASE_NUMBER, parties |-> <<>>, events |-> <<>>]
  /\ cases = {} /\ parties = {} /\ users = {}
  /\ case_parties = {} /\ docket_entries = {}
  /\ run = [r \in Runs |-> FreshRun]
  /\ nslots = 1
  /\ started = 0
  /\ faults = 0
  /\ fn = NoCall

NextFn ==
  \/ Apply_AttorneyEmail
  \/ Apply_extract_type
  \/ Apply_parse_date
  \/ Apply_extract_ecf_number
  \/ Apply_Normalize
  \/ Apply_print_statistics

SpecFn == InitFn /\ [][NextFn]_vars

\* ================================================================ claims
Completed(r) == Ended(r) /\ run[r].outcome = "completed"
CaseUnresolved(r) == run[r].case_seen = "absent" /\ run[r].case_id = NoId
EntriesOfCase(rows, cid) == {d \in rows : d.case_id = cid}

\* the run extracted at least one record to write
HasRecords(r) == Len(run[r].parties_data) > 0 \/ Len(run[r].entries) > 0

\* C1 (as stated): a run that has records to load, finds the target case
\* absent and does not create it aborts, and the committed store after it
\* equals the committed store before it.
C1_Original ==
  \A r \in Runs :
    (Ended(r) /\ CaseUnresolved(r) /\ HasRecords(r))
      => (run[r].outcome # "completed" /\ Snapshot = run[r].before)

\* C2 (as stated): no two committed docket entries of one case have the same
\* sequence number.
C2_UniqueSequence ==
  \A d1, d2 \in docket_entries :
    (d1.case_id = d2.case_id /\ d1.sequence_number = d2.sequence_number) => d1 = d2

\* the case of C3: a docket-loader run completed against a case that had no
\* entries, over events that all have text, with every insert succeeding
C3_Case(r) ==
  /\ Completed(r) /\ run[r].kind \in {"docket", "pg"}
  /\ EntriesOfCase(run[r].before.docket_entries, run[r].case_id) = {}
  /\ \A k \in 1..Len(source.events) : source.events[k].text # ""
  /\ run[r].inserted = Len(source.events)

\* C3: after such a run the case's entries are numbered exactly 1..N and the
\* entry numbered k carries the text, type and date of the k-th event.
C3_SequenceMatchesSource ==
  \A r \in Runs :
    C3_Case(r) =>
      LET es == EntriesOfCase(docket_entries, run[r].case_id)
      IN /\ {d.sequence_number : d \in es} = 1..Len(source.events)
         /\ Cardinality(es) = Len(source.events)
         /\ \A d \in es :
              LET ev == source.events[d.sequence_number]
              IN /\ d.description = ev.text
                 /\ d.type = extract_type(ev.text)
                 /\ d.date_filed = parse_date(ev.dateFiled)

\* C3 witness: such a run over at least two events that differ.
C3_Witness ==
  \E r \in Runs :
    /\ C3_Case(r)
    /\ Len(source.events) >= 2
    /\ source.events[1] # source.events[2]

\* C4 (as stated): a record whose write raised does not abort the run and is in
\* the run's error list under its identity.
C4_RowFailureContinues ==
  \A r \in Runs :
    \A f \in run[r].failed :
      /\ run[r].outcome # "crashed"
      /\ \E k \in 1..Len(run[r].errors) : run[r].errors[k] = "Entry " \o f

\* C5 (as stated): a run that has ended has left no connection open.
C5_ConnectionClosed ==
  \A r \in Runs : Ended(r) => run[r].conn # "open"

\* C6 (as stated): the exit code is 0 exactly for a run that completed its pass.
C6_ExitCode ==
  \A r \in Runs : Ended(r) => (run[r].exit_code = 0 <=> run[r].outcome = "completed")

\* C7: with runs one after the other, the committed store has at most one party
\* row per name and at most one case_parties row per (case, party).
C7_NoDuplicates ==
  /\ \A p1, p2 \in parties : p1.name = p2.name => p1 = p2
  /\ \A c1, c2 \in case_parties :
       (c1.case_id = c2.case_id /\ c1.party_id = c2.party_id) => c1 = c2

\* C7 witness: a second party-loader run has completed over a source that lists
\* one name twice, against a store the first run had filled.
C7_Witness ==
  \E r \in Runs :
    /\ Completed(r) /\ run[r].kind = "party"
    /\ run[r].before.parties # {}
    /\ Len(source.parties) = 2 /\ source.parties[1].info = source.parties[2].info
    /\ case_parties # {}

\* the natural key run r is about to create a row for, by table
CreatingParty(r) ==
  IF run[r].kind = "party" /\ run[r].pc = "insert_party"
  THEN {run[r].parties_data[run[r].i].name} ELSE {}
CreatingUser(r) ==
  IF run[r].kind = "party" /\ run[r].pc = "insert_user"
  THEN {AttorneyEmail(run[r].parties_data[run[r].i].attorneys[run[r].j])} ELSE {}
CreatingCase(r) ==
  IF run[r].kind = "pg" /\ run[r].pc = "insert_case" THEN {run[r].case_number} ELSE {}

\* C8: whenever two runs are both about to create a row for the same natural
\* key, each has looked the key up and found it absent, and it is absent still:
\* neither the committed store nor either run's transaction holds a row for it.
C8_BothObservedAbsent ==
  \A r1, r2 \in Runs :
    r1 # r2 =>
      /\ \A n \in CreatingParty(r1) \cap CreatingParty(r2) :
           ~\E p \in parties \cup run[r1].txn.parties \cup run[r2].txn.parties : p.name = n
      /\ \A e \in CreatingUser(r1) \cap CreatingUser(r2) :
           ~\E u \in users \cup run[r1].txn.users \cup run[r2].txn.users : u.email = e
      /\ \A c \in CreatingCase(r1) \cap CreatingCase(r2) :
           ~\E x \in cases : x.case_number = c

\* C8 witness: two runs at once, both past the lookup of the same party name and
\* both about to insert it.
C8_Witness ==
  \E r1, r2 \in Runs :
    r1 # r2 /\ CreatingParty(r1) \cap CreatingParty(r2) # {}

\* rows of a table that run r wrote
WrittenBy(r, rows) == {x \in rows : x.id[1] = run[r].serial}

\* C9 (as stated): a run that completes has committed exactly once, and no row a
\* run wrote is in the committed store before the run's commit.
C9_OneCommit ==
  \A r \in Runs :
    /\ Completed(r) => run[r].commits = 1
    /\ (run[r].kind # "none" /\ run[r].commits = 0) =>
         /\ WrittenBy(r, cases) = {}
         /\ WrittenBy(r, parties) = {}
         /\ WrittenBy(r, users) = {}
         /\ WrittenBy(r, docket_entries) = {}

\* C10 (as stated): at the end of a run that completed, inserted + skipped +
\* errors equals the number of records extracted.
C10_Tallies ==
  \A r \in Runs :
    Completed(r) =>
      IF run[r].kind = "party"
      THEN run[r].inserted + run[r].skipped + Len(run[r].errors) = Len(run[r].parties_data)
      ELSE run[r].inserted + run[r].skipped + Len(run[r].errors) = run[r].total

\* run r is inside its per-record write loop
InWriteLoop(r) ==
  run[r].pc \in {"select_party", "insert_party", "link", "select_user", "insert_user",
                 "insert_entry", "select_entry"}

\* C11 (as stated): the step a run takes inside its write loop on a connection
\* that was lost ends the loop at once (the run goes to its rollback handler or
\* ends), adds nothing to the per-row error list and moves to no further record.
C11_ConnectionLossAborts ==
  [][\A r \in Runs :
       (run[r].conn = "lost" /\ InWriteLoop(r) /\ run'[r] # run[r])
         => /\ run'[r].pc \in {"handler", "ended"}
            /\ run'[r].errors = run[r].errors
            /\ run'[r].outcome # "completed"]_vars

\* the party_info dicts of run r that carry a name / that carry none
Named(r) == {k \in 1..Len(run[r].parties_data) : run[r].parties_data[k].name # None}
Nameless(r) == {k \in 1..Len(run[r].parties_data) : run[r].parties_data[k].name = None}

\* C12 (as stated): a party-loader run over a source with a party region that
\* has no name, in a behaviour where no datastore call raised, completes, and
\* every party of the source that has a name is in the committed store.
C12_NamelessPartyDropped ==
  \A r \in Runs :
    (run[r].kind = "party" /\ Ended(r) /\ Nameless(r) # {} /\ faults = 0)
      => /\ Completed(r)
         /\ \A k \in Named(r) : \E p \in parties : p.name = run[r].parties_data[k].name

\* the party regions of the source that carry the name (as the loader reads
\* it, entities decoded), by position
RegionName(region) == ParseParty(region).name
RegionsNamed(name) == {k \in 1..Len(source.parties) : RegionName(source.parties[k]) = name}
LastOf(K) == CHOOSE k \in K : \A m \in K : m <= k

\* C13: in a behaviour where no datastore call raised, the committed store holds
\* at most one case_parties row per (case, party), and each row carries the role
\* and the counsel name of the last party region of the source that has the
\* party's name, which is the most recent link operation on the pair.
C13_LastLinkWins ==
  faults = 0 =>
    /\ \A c1, c2 \in case_parties :
         (c1.case_id = c2.case_id /\ c1.party_id = c2.party_id) => c1 = c2
    /\ \A cp \in case_parties :
         \A p \in parties :
           p.id = cp.party_id =>
             /\ RegionsNamed(p.name) # {}
             /\ LET last == source.parties[LastOf(RegionsNamed(p.name))]
                IN /\ cp.role = last.type
                   /\ cp.counsel_name = CounselName(ParseParty(last))

\* C13 witness: two regions with one name and different roles and attorneys
\* were linked, and the committed row carries the values of the second.
C13_Witness ==
  /\ faults = 0
  /\ Len(source.parties) = 2
  /\ source.parties[1].info = source.parties[2].info
  /\ source.parties[1].type # source.parties[2].type
  /\ CounselName(ParseParty(source.parties[1])) # CounselName(ParseParty(source.parties[2]))
  /\ \E cp \in case_parties :
       /\ cp.role = source.parties[2].type
       /\ \E p \in parties : p.id = cp.party_id /\ p.name = source.parties[2].info

\* the party run r has just resolved (its insert_party has returned)
Resolved(r) == run[r].kind = "party" /\ run[r].pc = "link"
CurrentParty(r) == run[r].parties_data[run[r].i]

\* C14: every party row the store held when a run started is in the store
\* unchanged, and when a run has resolved a party whose name the store held when
\* the run started, the id it got is the id of that stored row.
C14_ResolveKeepsStoredParty ==
  \A r \in Runs :
    run[r].kind # "none" =>
      /\ run[r].before.parties \subseteq parties
      /\ Resolved(r) =>
           \A p \in run[r].before.parties :
             p.name = CurrentParty(r).name => run[r].party_id = p.id

\* C14 witness: a run has resolved a party whose name was stored with a type
\* that differs from the type guessed from the source.
C14_Witness ==
  \E r \in Runs :
    /\ Resolved(r)
    /\ \E p \in run[r].before.parties :
         /\ p.name = CurrentParty(r).name
         /\ p.type # CurrentParty(r).type
         /\ p \in parties

\* C15: the committed store holds at most one user row per email, and every
\* user row the store held when a run started is in the store unchanged,
\* whether the runs follow one another or overlap.
C15_OneUserPerEmail ==
  /\ \A u1, u2 \in users : u1.email = u2.email => u1 = u2
  /\ \A r \in Runs : run[r].kind # "none" => run[r].before.users \subseteq users

\* C15 witness: a run holds an uncommitted user row for an email that another
\* run has committed meanwhile, next to a stored user whose email an attorney
\* of the source has under another first name.
C15_Witness ==
  /\ \E r \in Runs :
       \E t \in run[r].txn.users :
         \E u \in users : u.email = t.email /\ u.id # t.id
  /\ \E u \in users :
       /\ u.id = SeedUserId
       /\ \E k \in 1..Len(source.parties) :
            \E a \in 1..Len(source.parties[k].attorneys) :
              LET att == ParseAttorney(source.parties[k].attorneys[a])
              IN AttorneyEmail(att) = u.email /\ Words(att.full_name)[1] # u.first_name

\* C16: every case row and every docket-entry row the store held when a run
\* started is in the store with the same attributes, during the run and after.
C16_CasesAndEntriesKept ==
  \A r \in Runs :
    run[r].kind # "none" =>
      /\ run[r].before.cases \subseteq cases
      /\ run[r].before.docket_entries \subseteq docket_entries

\* C16 witness: a docket-loader run has completed against a case that had
\* entries already, and the case has more entries now.
C16_Witness ==
  \E r \in Runs :
    /\ Completed(r) /\ run[r].kind \in {"docket", "pg"}
    /\ run[r].before.cases # {}
    /\ EntriesOfCase(run[r].before.docket_entries, run[r].case_id) # {}
    /\ EntriesOfCase(docket_entries, run[r].case_id)
         # EntriesOfCase(run[r].before.docket_entries, run[r].case_id)

\* the attorneys run r extracted, over all its parties
AttorneysOf(r) ==
  UNION {{<<k, a>> : a \in 1..Len(run[r].parties_data[k].attorneys)} :
           k \in 1..Len(run[r].parties_data)}

\* C17: a party-loader run that resolved no case holds and commits no
\* case_parties row; and when no datastore call raised it ends completed, with
\* every party and every attorney of the source counted and in the committed
\* store.
C17_NoCaseNoLink ==
  \A r \in Runs :
    (run[r].kind = "party" /\ CaseUnresolved(r)) =>
      /\ run[r].txn.case_parties = {}
      /\ case_parties = run[r].before.case_parties
      /\ (Ended(r) /\ faults = 0) =>
           /\ Completed(r)
           /\ run[r].inserted = Len(run[r].parties_data)
           /\ run[r].attorneys_inserted = Cardinality(AttorneysOf(r))
           /\ \A k \in 1..Len(run[r].parties_data) :
                \E p \in parties : p.name = run[r].parties_data[k].name
           /\ \A ka \in AttorneysOf(r) :
                \E u \in users :
                  u.email = AttorneyEmail(run[r].parties_data[ka[1]].attorneys[ka[2]])

\* C17 witness: such a run has completed over a source with a party and its
\* attorneys, and they are in the committed store.
C17_Witness ==
  \E r \in Runs :
    /\ run[r].kind = "party" /\ CaseUnresolved(r) /\ Completed(r) /\ faults = 0
    /\ AttorneysOf(r) # {}
    /\ WrittenBy(r, parties) # {} /\ WrittenBy(r, users) # {}

\* what C18 says of a party region, read off the region itself: the name parts
\* of an attorney in the order first, middle, last with a blank between them,
\* and the attorneys of the region in source order with ', ' between them
FullNameOf(a) ==
  LET f == IF a.firstName \in {None, ""} THEN "" ELSE a.firstName
      m == IF a.middleName \in {None, ""} THEN "" ELSE a.middleName
      l == IF a.lastName \in {None, ""} THEN "" ELSE a.lastName
      fm == IF f # "" /\ m # "" THEN f \o " " \o m ELSE f \o m
  IN IF fm # "" /\ l # "" THEN fm \o " " \o l ELSE fm \o l

RECURSIVE ListedNames(_)
ListedNames(attorneys) ==
  IF Len(attorneys) = 0 THEN ""
  ELSE LET front == ListedNames(SubSeq(attorneys, 1, Len(attorneys) - 1))
           name == FullNameOf(attorneys[Len(attorneys)])
       IN IF name = "" THEN front
          ELSE IF front = "" THEN name
          ELSE front \o ", " \o name

ExpectedCounsel(region) ==
  IF ListedNames(region.attorneys) # "" THEN ListedNames(region.attorneys)
  ELSE IF PartyType(region.info) = "Individual" THEN "Pro Se"
  ELSE None

\* the number of parties of run r whose link operation is behind it
Linked(r) ==
  IF run[r].pc \in {"parse", "connect", "get_case", "select_party", "insert_party", "link"}
  THEN run[r].i - 1 ELSE run[r].i

\* C18: in a behaviour where no datastore call raised, every case_parties row a
\* run holds carries the role and the counsel name of the last linked region
\* that has the party's name: the listed attorneys' full names joined by ', ',
\* or 'Pro Se' for an Individual without attorneys, or null for a Corporation
\* without attorneys.
C18_CounselName ==
  faults = 0 =>
    \A r \in Runs :
      \A row \in run[r].txn.case_parties :
        \E p \in VisibleParties(r) :
          /\ p.id = row.party_id
          /\ LET K == {k \in 1..Linked(r) : RegionName(source.parties[k]) = p.name}
             IN /\ K # {}
                /\ row.role = source.parties[LastOf(K)].type
                /\ row.counsel_name = ExpectedCounsel(source.parties[LastOf(K)])

\* C18 witness: a run holds a link with two attorneys' names joined and a
\* link marked Pro Se.
C18_Witness ==
  /\ faults = 0
  /\ \E r \in Runs :
       /\ \E row \in run[r].txn.case_parties : row.counsel_name = "Jane Doe, Al B Po"
       /\ \E row \in run[r].txn.case_parties : row.counsel_name = "Pro Se"

\* a string of blanks only (the empty string included)
IsBlank(str) == \A k \in 1..Len(str) : Char(str, k) = " "

\* key is str without its leading and trailing blanks
IsTrimOf(key, str) ==
  \E i \in 1..Len(str) :
    \E j \in i..Len(str) :
      /\ key = SubSeq(str, i, j)
      /\ Char(str, i) # " " /\ Char(str, j) # " "
      /\ IsBlank(SubSeq(str, 1, i - 1)) /\ IsBlank(SubSeq(str, j + 1, Len(str)))

\* key is name lower-cased, a dot for each blank, then the fixed suffix
IsSynthesizedFrom(key, name) ==
  /\ Len(key) = Len(name) + Len("@law.example.com")
  /\ SubSeq(key, Len(name) + 1, Len(key)) = "@law.example.com"
  /\ \A k \in 1..Len(name) :
       Char(key, k) = IF Char(name, k) = " " THEN "." ELSE Lower(Char(name, k))

\* C19: the lookup key derived from an attorney region is the synthesized
\* address when the region's email is missing or blank, and the trimmed email
\* otherwise; Jane Doe without email gives jane.doe@law.example.com.
C19_EmailKey ==
  fn.op = "insert_attorney_as_user" =>
    LET a == fn.arg
        missing == a.email = None \/ IsBlank(a.email)
    IN /\ missing => IsSynthesizedFrom(fn.out, FullNameOf(a))
       /\ ~missing => IsTrimOf(fn.out, a.email)
       /\ (missing /\ a.firstName = "Jane" /\ a.middleName = None /\ a.lastName = "Doe")
            => fn.out = "jane.doe@law.example.com"

\* C19 witness: the key of Jane Doe, whose region has an empty email.
C19_Witness ==
  /\ fn.op = "insert_attorney_as_user"
  /\ fn.arg = [firstName |-> "Jane", middleName |-> None, lastName |-> "Doe", email |-> ""]
  /\ fn.out = "jane.doe@law.example.com"

\* the rules of the classifier as C20 lists them: keywords and label, in order
Rules ==
  << [keywords |-> {"CERTIFICATE OF SERVICE", "CERT OF SERVICE"}, label |-> "Certificate"],
     [keywords |-> {"CERTIFICATE"}, label |-> "Certificate"],
     [keywords |-> {"MOTION"}, label |-> "Motion"],
     [keywords |-> {"ORDER"}, label |-> "Order"],
     [keywords |-> {"RESPONSE", "OPPOSITION"}, label |-> "Response"],
     [keywords |-> {"REPLY"}, label |-> "Reply"],
     [keywords |-> {"NOTICE"}, label |-> "Notice"],
     [keywords |-> {"BRIEF", "MEMORANDUM"}, label |-> "Brief"],
     [keywords |-> {"APPEAL"}, label |-> "Appeal"],
     [keywords |-> {"PETITION"}, label |-> "Petition"],
     [keywords |-> {"TRANSCRIPT"}, label |-> "Transcript"],
     [keywords |-> {"JUDGMENT"}, label |-> "Judgment"],
     [keywords |-> {"DOCKETING STATEMENT"}, label |-> "Statement"],
     [keywords |-> {"APPENDIX"}, label |-> "Appendix"],
     [keywords |-> {"EXHIBIT"}, label |-> "Exhibit"] >>

\* rule k has a keyword in the upper-cased text
RuleMatches(k, text_upper) == \E kw \in Rules[k].keywords : Contains(text_upper, kw)

\* C20: the classifier returns the label of the first listed rule that has a
\* keyword in the upper-cased text, and 'Filing' when none has; a text with
\* MOTION and ORDER (and no keyword of the two Certificate rules, which come
\* first) is Motion, one with CERTIFICATE OF SERVICE and MOTION is Certificate.
C20_FirstRuleWins ==
  fn.op = "extract_type" =>
    LET text_upper == Upper(fn.arg)
        hits == {k \in 1..Len(Rules) : RuleMatches(k, text_upper)}
    IN /\ hits = {} => fn.out = "Filing"
       /\ hits # {} => \E k \in hits : (\A m \in hits : k <= m) /\ fn.out = Rules[k].label
       /\ ({3, 4} \subseteq hits /\ 1 \notin hits /\ 2 \notin hits) => fn.out = "Motion"
       /\ {1, 3} \subseteq hits => fn.out = "Certificate"

\* C20 witness: a text with ORDER before MOTION in it was classified Motion.
C20_Witness ==
  /\ fn.op = "extract_type"
  /\ fn.arg = "ORDER of Motion"
  /\ fn.out = "Motion"

\* C21: for every docket event the direct-write loader and the two SQL
\* generators produce the same normalized values: the same classified type, the
\* same parsed date (null on a malformed date), the same ECF number (null when
\* absent) and the same filer.
C21_SameNormalization ==
  fn.op = "normalize" =>
    /\ fn.out.sql = fn.out.loader
    /\ fn.out.script = fn.out.loader

\* a string of the exact shape MM/DD/YYYY that names a day of the calendar
IsCalendarDate(s) ==
  /\ Len(s) = 10
  /\ Char(s, 3) = "/" /\ Char(s, 6) = "/"
  /\ IsDigits(SubSeq(s, 1, 2)) /\ IsDigits(SubSeq(s, 4, 5)) /\ IsDigits(SubSeq(s, 7, 10))
  /\ StrToInt(SubSeq(s, 7, 10)) >= 1
  /\ StrToInt(SubSeq(s, 1, 2)) \in 1..12
  /\ StrToInt(SubSeq(s, 4, 5)) \in
       1..DaysInMonth(StrToInt(SubSeq(s, 7, 10)), StrToInt(SubSeq(s, 1, 2)))

\* a string that names no day of the calendar even when a month or a day of
\* one digit is let pass: empty, of another format, or an impossible date
IsNoDate(s) ==
  LET f == Split(s, "/", "")
  IN \/ Len(f) # 3
     \/ ~IsDigits(f[1]) \/ ~IsDigits(Strip(f[2])) \/ ~IsDigits(f[3])
     \/ Len(f[1]) > 2 \/ Len(f[2]) > 2 \/ Len(f[3]) # 4
     \/ StrToInt(f[3]) < 1
     \/ StrToInt(f[1]) \notin 1..12
     \/ StrToInt(Strip(f[2])) \notin 1..DaysInMonth(StrToInt(f[3]), StrToInt(f[1]))

\* C22: the date parser never raises: for a valid MM/DD/YYYY string it
\* returns the same calendar date as YYYY-MM-DD, and for every other input
\* (empty string, wrong format, impossible date) it returns null.
C22_DateParserTotal ==
  fn.op = "parse_date" =>
    \A parsed \in {fn.out.loader, fn.out.script} :
      /\ parsed # ValueError
      /\ IsCalendarDate(fn.arg) =>
           parsed = SubSeq(fn.arg, 7, 10) \o "-" \o SubSeq(fn.arg, 1, 2)
                    \o "-" \o SubSeq(fn.arg, 4, 5)
      /\ IsNoDate(fn.arg) => parsed = None

\* the bracketed tokens of a text: a '[' and the next ']' with no bracket
\* between them, as the pair of their positions
BracketTokens(text) ==
  {t \in IndexesOf(text, "[") \X IndexesOf(text, "]") :
     /\ t[1] < t[2]
     /\ \A k \in (t[1] + 1)..(t[2] - 1) : Char(text, k) \notin {"[", "]"}}

TokenBody(text, t) == SubSeq(text, t[1] + 1, t[2] - 1)

\* C25: the ECF extractor returns the digits of the first bracketed token of the
\* text that consists of 10 or more digits and nothing else, skipping earlier
\* bracketed tokens that are shorter or contain non-digits, and returns null
\* when the text has no such token.
C25_FirstEcfToken ==
  fn.op = "extract_ecf_number" =>
    LET ecf == {t \in BracketTokens(fn.arg) :
                  Len(TokenBody(fn.arg, t)) >= 10 /\ IsDigits(TokenBody(fn.arg, t))}
    IN \A found \in {fn.out.loader, fn.out.script} :
         /\ ecf = {} => found = None
         /\ ecf # {} => \E t \in ecf : /\ \A u \in ecf : t[1] <= u[1]
                                       /\ found = TokenBody(fn.arg, t)

HasText(ev) == ev.text # ""

\* the docket entries a run wrote, committed or not yet
EntriesWrittenBy(r) == WrittenBy(r, docket_entries \cup run[r].txn.docket_entries)

\* C23: a docket event whose text is empty is dropped by the loader without
\* error: it produces no docket entry, consumes no sequence number, and the
\* events after it are still loaded. So the entries a run writes are the events
\* that have a text, numbered among themselves, and a run that completes having
\* inserted every entry it parsed has written one entry for each of them.
C23_EmptyTextDropped ==
  \A r \in Runs :
    run[r].kind \in {"docket", "pg"} =>
      LET kept == SelectSeq(source.events, HasText)
      IN /\ \A d \in EntriesWrittenBy(r) :
              /\ d.description # ""
              /\ d.sequence_number \in 1..Len(kept)
              /\ d.description = kept[d.sequence_number].text
         /\ (Completed(r) /\ run[r].inserted = run[r].total) =>
              Cardinality(EntriesWrittenBy(r)) = Len(kept)

\* the three ways C24 lets a run end
EndsAsStated(r) ==
  \/ run[r].outcome = "completed" /\ run[r].errors = <<>>
  \/ run[r].outcome = "completed" /\ run[r].errors # <<>>
  \/ run[r].outcome = "fatal"

\* C24: every run terminates, and it terminates in exactly one of three
\* outcomes: completed with an empty error list, completed with a non-empty
\* per-row error list, or aborted by a fatal error; no run ends in any other
\* way, such as an unhandled exception escaping the write loop.
C24_TerminatesInThreeOutcomes ==
  /\ \A r \in Runs : Active(r) ~> Ended(r)
  /\ [](\A r \in Runs : Ended(r) => EndsAsStated(r))

\* C26: the id returned by the party resolver and by the attorney resolver
\* always identifies a row that is present in the store and carries the
\* resolved natural key (party name, attorney email), on every path: existing
\* row found, new row created, insert reporting a conflict, insert raising.
C26_ResolvedIdPresent ==
  \A r \in Runs :
    /\ (run[r].kind = "party" /\ run[r].pc = "link") =>
         \E p \in VisibleParties(r) :
           p.id = run[r].party_id /\ p.name = run[r].parties_data[run[r].i].name
    /\ (run[r].kind = "party" /\ run[r].user_id # NoId /\ run[r].commits = 0) =>
         \E u \in VisibleUsers(r) : u.id = run[r].user_id /\ u.email = run[r].email

\* C27: in every reachable state of the store, each case_parties row
\* references a case row and a party row that both exist, and each docket
\* entry references a case row that exists.
C27_ReferencesExist ==
  /\ \A cp \in case_parties :
       /\ \E c \in cases : c.id = cp.case_id
       /\ \E p \in parties : p.id = cp.party_id
  /\ \A d \in docket_entries : \E c \in cases : c.id = d.case_id

\* C27 witness: a store in which runs created the case, a party, the link
\* between the two and a docket entry of that case.
C27_Witness ==
  \E cp \in case_parties :
    /\ cp.case_id # SeedCaseId /\ cp.party_id # SeedPartyId
    /\ \E d \in docket_entries : d.case_id = cp.case_id

\* run r of the pg8000 loader started on a store that already had, for the
\* case it resolved, an entry under the number of each entry it parsed
AlreadyLoaded(r) ==
  /\ run[r].kind = "pg" /\ run[r].case_id # NoId /\ Len(run[r].entries) > 0
  /\ \A k \in 1..Len(run[r].entries) :
       \E d \in run[r].before.docket_entries :
         /\ d.case_id = run[r].case_id
         /\ d.sequence_number = StrToInt(run[r].entries[k].entry_number)

\* C28: with the duplicate-sequence check before insert, running the docket
\* loader again over an unchanged source and store leaves the set of docket
\* entries as the first run left it: the second run inserts zero entries, and
\* when none of its calls raised it has skipped every one.
C28_SecondRunSkipsAll ==
  \A r \in Runs :
    AlreadyLoaded(r) =>
      /\ run[r].inserted = 0
      /\ run[r].pc # "insert_entry"
      /\ docket_entries = run[r].before.docket_entries
      /\ (run[r].pc = "close" /\ run[r].conn = "open" /\ faults = 0) =>
           run[r].skipped = Len(run[r].entries)

\* C28 witness: the pg8000 loader ran twice over two events on a store that had
\* no case; the second run is through its loop and skipped both entries.
C28_Witness ==
  \E r \in Runs :
    /\ AlreadyLoaded(r) /\ run[r].serial = 2 /\ run[r].pc = "close"
    /\ \E c \in cases : c.id[1] = 1
    /\ Len(source.events) = 2 /\ run[r].skipped = 2
    /\ Cardinality(docket_entries) = 2

ExistenceChecks == {CaseLookup, PartyLookup, UserLookup}

\* C29 (as stated): the only reads a run issues against the store are the
\* resolver's existence checks by natural key (case by case number, party by
\* name, user by email); a run never reads docket entries or case-party rows
\* back, neither before nor after its writes.
C29_Original == \A r \in Runs : run[r].reads \subseteq ExistenceChecks

\* C29 (amended): before its commit a run reads only through existence checks
\* by key: case by case number, party by name, user by email and, in the
\* pg8000 loader, docket entry by case and sequence number; after its commit
\* the docket loader reads the count and dates of the case's entries back, and
\* the party loader the parties, the attorney users and, when it resolved a
\* case, the case's case-party rows.
C29_ReadsByKeyThenReport ==
  \A r \in Runs :
    LET s == run[r]
        report == {[table |-> "parties", by |-> ""], [table |-> "users", by |-> "role"],
                   [table |-> "case_parties", by |-> "case_id"]}
    IN /\ s.kind = "pg" => s.reads \subseteq {CaseLookup, EntryLookup}
       /\ s.kind = "docket" => s.reads \subseteq {CaseLookup, VerifyRead}
       /\ s.kind = "party" => s.reads \subseteq ExistenceChecks \cup report
       /\ (s.kind \in {"party", "docket"} /\ s.commits = 0) =>
            s.reads \subseteq ExistenceChecks
       /\ (s.kind = "party" /\ s.case_id = NoId) =>
            \A rd \in s.reads : rd.table # "case_parties"
       /\ (Completed(r) /\ s.kind = "docket") => VerifyRead \in s.reads
       /\ (Completed(r) /\ s.kind = "party") =>
            {rd \in report : rd.table # "case_parties" \/ s.case_id # NoId} \subseteq s.reads

\* C29 witness: a docket-loader run that inserted an entry, committed and read
\* the case's entries back.
C29_Witness ==
  \E r \in Runs :
    /\ run[r].kind = "docket" /\ Completed(r) /\ run[r].inserted > 0
    /\ run[r].reads = {CaseLookup, VerifyRead}

\* a parsed date as a number that grows with the calendar
DayNumber(iso) ==
  LET f == Split(iso, "-", "")
  IN StrToInt(f[1]) * 10000 + StrToInt(f[2]) * 100 + StrToInt(f[3])

RECURSIVE SumOver(_, _)
SumOver(f, S) ==
  IF S = {} THEN 0 ELSE LET x == CHOOSE x \in S : TRUE IN f[x] + SumOver(f, S \ {x})

\* the report stats is right about the events kept: the counts sum to their
\* number, each type's count is the number of events classified as it, and the
\* range is the earliest and the latest of the dates that parsed
ReportMatches(stats, kept) ==
  LET dated == {k \in 1..Len(kept) : parse_date(kept[k].dateFiled) # None}
  IN /\ stats.total = Len(kept)
     /\ SumOver(stats.types, DOMAIN stats.types) = Len(kept)
     /\ \A k \in 1..Len(kept) : extract_type(kept[k].text) \in DOMAIN stats.types
     /\ \A t \in DOMAIN stats.types :
          stats.types[t] = Cardinality({k \in 1..Len(kept) : extract_type(kept[k].text) = t})
     /\ dated = {} <=> Len(stats.range) = 0
     /\ dated # {} =>
          /\ \E k \in dated : stats.range[1] = parse_date(kept[k].dateFiled)
          /\ \E k \in dated : stats.range[2] = parse_date(kept[k].dateFiled)
          /\ \A k \in dated :
               /\ DayNumber(stats.range[1]) <= DayNumber(parse_date(kept[k].dateFiled))
               /\ DayNumber(parse_date(kept[k].dateFiled)) <= DayNumber(stats.range[2])

\* C30: in the run report the per-type counts sum to the number of parsed
\* docket entries, every parsed entry is counted under exactly the type it was
\* classified as, and the reported date range is the minimum and maximum over
\* exactly the entries whose date parsed to a non-null value (no range is
\* reported when there is none).
C30_ReportMatchesEntries ==
  fn.op = "print_statistics" =>
    /\ fn.out.loader.printed => ReportMatches(fn.out.loader, fn.arg)
    /\ fn.out.pg.printed => ReportMatches(fn.out.pg, SelectSeq(fn.arg, HasText))

\* C30 witness: a report over three events of which the first is the latest,
\* the second the earliest and the third has a date that does not parse; both
\* loaders report two Motions, one Order and the range from the second to the
\* first.
C30_Witness ==
  /\ fn.op = "print_statistics"
  /\ fn.arg = << [dateFiled |-> "01/15/2024", text |-> "MOTION to dismiss"],
                 [dateFiled |-> "12/31/2023", text |-> "ORDER granting"],
                 [dateFiled |-> "02/30/2024", text |-> "motion for leave"] >>
  /\ fn.out.loader.printed
  /\ fn.out.loader.types = [t \in {"Motion", "Order"} |-> IF t = "Motion" THEN 2 ELSE 1]
  /\ fn.out.loader.range = <<"2023-12-31", "2024-01-15">>
  /\ fn.out.pg = fn.out.loader
====
